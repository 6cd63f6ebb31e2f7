---------------------------- MODULE CommandsProofs -----------------------------
(***************************************************************************)
(* Proofs about the slash commands: about their menus (Menu), for any      *)
(* number of sessions and models and for every height a terminal may have; *)
(* and about the project memory that /memory and the memory tool change    *)
(* (Memory), for any number of types, entries and contents.                *)
(*                                                                         *)
(* That an index names the entry it was shown for, and that observations   *)
(* are kept, is proved for any number of agents.  That entries leave by    *)
(* name only and that appending makes no second copy hold where one agent  *)
(* has project memory, which is their hypothesis: calls of two agents      *)
(* interleave without a lock, and each writes the whole file it read.      *)
(***************************************************************************)
EXTENDS Menu, Memory, SequenceTheorems, FiniteSetTheorems, WellFoundedInduction, TLAPS

\* The window is within the list, and the selection within the window.
InWindow(s, n, v, t) ==
  /\ n \in Nat /\ s \in 0..(n - 1) /\ v \in 1..n /\ t \in 0..(n - v)
  /\ t <= s /\ s < t + v

\* Where a menu is open it shows its window: what the property needs of the state
\* that led to the frame.
WindowOK ==
  /\ menu \in {"none", "session", "model"}
  /\ awaits # "key" => menu # "none"
  /\ height \in Nat
  /\ menu # "none" =>
       /\ InWindow(selected, count, visible, top)
       /\ frame = SessionFrame(selected, top, visible)
  /\ menu = "model" => top = 0 /\ visible = count
------------------------------------------------------------------------------
\* session_visible_rows: at least one row where there is an entry, and no more rows
\* than entries.
LEMMA VisibleFits ==
  ASSUME NEW n \in Nat \ {0}, NEW h \in Nat
  PROVE  VisibleRows(n, h) \in 1..n
  BY DEF VisibleRows, Rows, Greater, Lesser

\* adjust_session_window: wherever the window was, it ends up within the list and
\* holds the selection.
LEMMA AdjustedHolds ==
  ASSUME NEW n \in Nat, NEW s \in 0..(n - 1), NEW v \in 1..n, NEW t \in Nat
  PROVE  InWindow(s, n, v, AdjustedTop(s, n, v, t))
  BY DEF InWindow, AdjustedTop, Greater, Lesser

\* The window a menu opens with.
LEMMA FirstHolds ==
  ASSUME NEW n \in Nat \ {0}, NEW v \in 1..n
  PROVE  InWindow(0, n, v, 0)
  BY DEF InWindow

\* A window that holds the selection shows entries of the list, one highlighted.
LEMMA FrameShows ==
  ASSUME NEW s, NEW n, NEW v, NEW t, InWindow(s, n, v, t)
  PROVE  LET f == SessionFrame(s, t, v) IN
         /\ \A row \in DOMAIN f : /\ f[row].entry \in 0..(n - 1)
                                  /\ f[row].entry = f[1].entry + row - 1
                                  /\ f[row].highlighted <=> f[row].entry = s
         /\ \E row \in DOMAIN f : f[row].highlighted
<1> DEFINE f == SessionFrame(s, t, v)
<1>1. /\ n \in Nat /\ s \in 0..(n - 1) /\ v \in 1..n /\ t \in 0..(n - v)
      /\ t <= s /\ s < t + v
  BY DEF InWindow
<1>2. DOMAIN f = 1..v
  BY DEF SessionFrame
<1>3. ASSUME NEW row \in 1..v
      PROVE  f[row].entry = t + row - 1
  BY DEF SessionFrame
<1>4. ASSUME NEW row \in 1..v
      PROVE  f[row].highlighted <=> t + row - 1 = s
  BY Zenon DEF SessionFrame
<1> HIDE DEF f
<1>5. s - t + 1 \in 1..v
  BY <1>1
<1>6. f[s - t + 1].highlighted
  <2>1. t + (s - t + 1) - 1 = s
    BY <1>1
  <2> QED BY <1>4, <1>5, <2>1
<1>7. ASSUME NEW row \in 1..v
      PROVE  /\ f[row].entry \in 0..(n - 1)
             /\ f[row].entry = f[1].entry + row - 1
             /\ f[row].highlighted <=> f[row].entry = s
  <2>1. 1 \in 1..v
    BY <1>1
  <2>2. f[row].entry = t + row - 1 /\ f[1].entry = t + 1 - 1
    BY <1>3, <2>1
  <2>3. f[row].highlighted <=> f[row].entry = s
    BY <1>4, <2>2, Zenon
  <2> QED BY <1>1, <2>2, <2>3
<1> QED BY <1>2, <1>5, <1>6, <1>7 DEF f

\* render_model_menu draws what a window over the whole list would.
LEMMA ModelIsWhole ==
  ASSUME NEW n \in Nat, NEW s
  PROVE  ModelFrame(n, s) = SessionFrame(s, 0, n)
  BY DEF ModelFrame, SessionFrame
------------------------------------------------------------------------------
LEMMA MenuInitHolds == MenuInit => WindowOK
  BY DEF MenuInit, WindowOK

LEMMA OpenStep ==
  ASSUME WindowOK, NEW n \in Nat \ {0}, NEW h \in Nat,
         OpenSessions(n, h) \/ \E current \in 0..(NModels - 1) : OpenModels(current, h)
  PROVE  WindowOK'
<1>1. CASE OpenSessions(n, h)
  <2>1. visible' \in 1..n /\ count' = n /\ selected' = 0 /\ top' = 0
    BY <1>1, VisibleFits DEF OpenSessions
  <2>2. InWindow(0, n, visible', 0)
    BY <2>1, FirstHolds
  <2>3. InWindow(selected', count', visible', top')
    BY <2>1, <2>2
  <2>4. frame' = SessionFrame(selected', top', visible')
    BY <1>1, <2>1 DEF OpenSessions
  <2> QED BY <1>1, <2>3, <2>4 DEF OpenSessions, WindowOK
<1>2. CASE \E current \in 0..(NModels - 1) : OpenModels(current, h)
  <2>1. PICK current \in 0..(NModels - 1) : OpenModels(current, h)
    BY <1>2
  <2>2. NModels \in Nat \ {0}
    BY MenuAssumption
  <2>3. InWindow(current, NModels, NModels, 0)
    BY <2>2 DEF InWindow
  <2>4. frame' = SessionFrame(current, 0, NModels)
    BY <2>1, <2>2, ModelIsWhole DEF OpenModels
  <2> QED BY <2>1, <2>3, <2>4 DEF OpenModels, WindowOK
<1> QED BY <1>1, <1>2

LEMMA RedrawStep ==
  ASSUME WindowOK, menu # "none", NEW s \in 0..(count - 1), Redraw(s)
  PROVE  WindowOK'
<1>1. count \in Nat \ {0} /\ top \in Nat /\ visible \in 1..count /\ height \in Nat
  BY DEF WindowOK, InWindow
<1>2. CASE menu = "session"
  <2>1. visible' \in 1..count
    BY <1>1, <1>2, VisibleFits DEF Redraw
  <2>2. InWindow(s, count, visible', top')
    BY <1>1, <1>2, <2>1, AdjustedHolds DEF Redraw
  <2> QED BY <1>2, <2>2 DEF Redraw, WindowOK
<1>3. CASE menu = "model"
  <2>1. top = 0 /\ visible = count
    BY <1>3 DEF WindowOK
  <2>2. InWindow(s, count, count, 0)
    BY <1>1 DEF InWindow
  <2>3. frame' = SessionFrame(s, 0, count)
    BY <1>1, <1>3, ModelIsWhole DEF Redraw
  <2> QED BY <1>3, <2>1, <2>2, <2>3 DEF Redraw, WindowOK
<1> QED BY <1>2, <1>3 DEF WindowOK

LEMMA MenuNextHolds == WindowOK /\ [MenuNext]_menuVars => WindowOK'
<1> SUFFICES ASSUME WindowOK, [MenuNext]_menuVars
             PROVE  WindowOK'
  OBVIOUS
<1>1. ASSUME NEW h \in Heights, Resize(h)
      PROVE  WindowOK'
  BY <1>1, MenuAssumption DEF Resize, WindowOK
<1>2. ASSUME NEW n \in 1..MaxSessions, NEW h \in Heights, OpenSessions(n, h)
      PROVE  WindowOK'
  <2>1. n \in Nat \ {0} /\ h \in Nat
    BY MenuAssumption
  <2> QED BY <1>2, <2>1, OpenStep
<1>3. ASSUME NEW current \in 0..(NModels - 1), NEW h \in Heights, OpenModels(current, h)
      PROVE  WindowOK'
  <2>1. h \in Nat /\ 1 \in Nat \ {0}
    BY MenuAssumption
  <2> QED BY <1>3, <2>1, OpenStep
<1>4. CASE Escape
  BY <1>4 DEF Escape, WindowOK
<1>5. CASE Enter \/ Cancel \/ SeqTimeout
  BY <1>5 DEF Enter, Cancel, SeqTimeout, Close, WindowOK
<1>6. CASE Report
  BY <1>6 DEF Report, WindowOK
<1>7. ASSUME NEW byte, Seq0(byte)
      PROVE  WindowOK'
  BY <1>7 DEF Seq0, WindowOK
<1>8. ASSUME NEW byte, Seq1(byte)
      PROVE  WindowOK'
  <2>1. menu # "none"
    BY <1>8 DEF Seq1, WindowOK
  <2>2. count \in Nat /\ selected \in 0..(count - 1)
    BY <2>1 DEF WindowOK, InWindow
  <2>3. PICK s \in 0..(count - 1) : Redraw(s)
    <3>1. CASE bracket /\ byte = "A" /\ selected > 0
      <4>1. selected - 1 \in 0..(count - 1)
        BY <2>2, <3>1
      <4> QED BY <1>8, <3>1, <4>1 DEF Seq1
    <3>2. CASE ~(bracket /\ byte = "A" /\ selected > 0) /\ bracket /\ byte = "B" /\ selected < count - 1
      <4>1. selected + 1 \in 0..(count - 1)
        BY <2>2, <3>2
      <4> QED BY <1>8, <3>2, <4>1 DEF Seq1
    <3>3. CASE /\ ~(bracket /\ byte = "A" /\ selected > 0)
               /\ ~(bracket /\ byte = "B" /\ selected < count - 1)
      BY <1>8, <2>2, <3>3 DEF Seq1
    <3> QED BY <3>1, <3>2, <3>3
  <2> QED BY <2>1, <2>3, RedrawStep
<1>9. CASE UNCHANGED menuVars
  BY <1>9 DEF menuVars, WindowOK
<1> QED BY <1>1, <1>2, <1>3, <1>4, <1>5, <1>6, <1>7, <1>8, <1>9 DEF MenuNext

LEMMA InvShows == WindowOK => SelectionShown
<1> SUFFICES ASSUME WindowOK, menu # "none"
             PROVE  SelectionShown
  BY DEF SelectionShown
<1>1. InWindow(selected, count, visible, top) /\ frame = SessionFrame(selected, top, visible)
  BY DEF WindowOK
<1> QED BY <1>1, FrameShows DEF SelectionShown

\* Whatever keys come and however the terminal is resized, the menu shows entries of
\* its list and highlights the one that Enter takes, in a list and a window of any
\* length (cmd.c:194-217, 334-376, 398-423).
THEOREM ShowsSelection == MenuSpec => []SelectionShown
<1>1. MenuInit => WindowOK
  BY MenuInitHolds
<1>2. WindowOK /\ [MenuNext]_menuVars => WindowOK'
  BY MenuNextHolds
<1>3. WindowOK => SelectionShown
  BY InvShows
<1> QED BY <1>1, <1>2, <1>3, PTL DEF MenuSpec
------------------------------------------------------------------------------
(***************************************************************************)
(* The project memory.                                                     *)
(***************************************************************************)

\* A set of numbers has a least one.
LEMMA LeastOf ==
  ASSUME NEW S \in SUBSET Nat, S # {}
  PROVE  \E n \in S : \A m \in S : n <= m
<1> DEFINE R == {ss \in Nat \X Nat : ss[1] < ss[2]}
<1>1. IsWellFoundedOn(R, Nat)
  BY NatLessThanWellFounded DEF OpToRel
<1>2. PICK n \in S : \A m \in S : ~ (<<m, n>> \in R)
  <2> HIDE DEF R
  <2> QED BY <1>1, WFMin
<1>3. \A m \in S : n <= m
  <2> SUFFICES ASSUME NEW m \in S PROVE n <= m
    OBVIOUS
  <2>1. <<m, n>> \in Nat \X Nat /\ ~ (<<m, n>> \in R)
    BY <1>2
  <2>2. QED
    BY <2>1
<1>4. QED
  BY <1>3
------------------------------------------------------------------------------
(***************************************************************************)
(* How many entries the types before one have.                             *)
(***************************************************************************)
Sums(g, f, n) ==
  g = [t \in 1..n |-> IF t = 1 THEN 0 ELSE g[t-1] + Len(f[t-1])]

\* The sums exist, whatever the files are.
LEMMA SumsExist ==
  ASSUME NEW f
  PROVE  \A n \in Nat : \E g : Sums(g, f, n)
<1> DEFINE Bad == {n \in Nat : ~ \E g : Sums(g, f, n)}
<1> SUFFICES ASSUME Bad # {} PROVE FALSE
  OBVIOUS
<1>1. PICK n \in Bad : \A m \in Bad : n <= m
  BY LeastOf
<1>2. n \in Nat /\ ~ \E g : Sums(g, f, n)
  OBVIOUS
<1>3. CASE n = 0
  <2>1. Sums([t \in 1..0 |-> 0], f, 0)
    BY DEF Sums
  <2> QED BY <1>2, <1>3, <2>1
<1>4. CASE n # 0
  <2>1. n - 1 \in Nat /\ ~ (n <= n - 1)
    BY <1>2, <1>4
  <2>2. PICK h : Sums(h, f, n - 1)
    BY <1>1, <2>1
  <2> DEFINE e(g, t) == IF t = 1 THEN 0 ELSE g[t-1] + Len(f[t-1])
             g == [t \in 1..n |-> IF t < n THEN h[t] ELSE e(h, n)]
  <2>3. ASSUME NEW t \in 1..n PROVE g[t] = e(g, t)
    <3>1. CASE t < n
      <4>1. t \in 1..(n - 1) /\ g[t] = h[t] /\ (t # 1 => t - 1 \in 1..n /\ t - 1 < n)
        BY <1>2, <3>1
      <4>2. h[t] = e(h, t)
        BY <2>2, <4>1 DEF Sums
      <4>3. t # 1 => g[t - 1] = h[t - 1]
        BY <4>1
      <4> QED BY <4>1, <4>2, <4>3
    <3>2. CASE ~ (t < n)
      <4>1. t = n /\ (t # 1 => t - 1 \in 1..n /\ t - 1 < n)
        BY <1>2, <3>2
      <4>2. t # 1 => g[t - 1] = h[t - 1]
        BY <4>1
      <4>3. g[t] = e(h, n)
        BY <3>2
      <4> QED BY <4>1, <4>2, <4>3
    <3> QED BY <3>1, <3>2
  <2>4. Sums(g, f, n)
    BY <2>3 DEF Sums
  <2> QED BY <1>2, <2>4
<1> QED BY <1>3, <1>4

Files == [Types -> Seq(Content)]

\* What the types before each have together; each type's entries come after those of
\* the types before it.
LEMMA SumsHow ==
  ASSUME NEW f \in Files, NEW n \in 1..(NTypes + 1), NEW g, Sums(g, f, n)
  PROVE  \A t \in 1..n :
           /\ g[t] \in Nat
           /\ t = 1 => g[t] = 0
           /\ t # 1 => g[t] = g[t-1] + Len(f[t-1])
<1> DEFINE Right(t) == /\ g[t] \in Nat
                       /\ t = 1 => g[t] = 0
                       /\ t # 1 => g[t] = g[t-1] + Len(f[t-1])
           Bad == {t \in Nat : t \in 1..n /\ ~Right(t)}
<1> SUFFICES ASSUME Bad # {} PROVE FALSE
  OBVIOUS
<1>1. PICK t \in Bad : \A u \in Bad : t <= u
  BY LeastOf
<1>2. t \in 1..n /\ ~Right(t) /\ NTypes \in Nat
  BY MemoryAssumption DEF MemoryAssumption
<1>3. g[t] = IF t = 1 THEN 0 ELSE g[t-1] + Len(f[t-1])
  BY <1>2 DEF Sums
<1>4. CASE t # 1
  <2>1. t - 1 \in 1..n /\ t - 1 \in Types /\ ~ (t <= t - 1) /\ t - 1 \in Nat
    BY <1>2, <1>4 DEF Types
  <2>2. g[t - 1] \in Nat
    BY <1>1, <2>1
  <2>3. f[t - 1] \in Seq(Content)
    BY <2>1 DEF Files
  <2>4. Len(f[t - 1]) \in Nat
    BY <2>3, LenProperties
  <2> QED BY <1>2, <1>3, <1>4, <2>2, <2>4
<1> QED BY <1>2, <1>3, <1>4

\* Before, the recursive function of the model, is those sums.
LEMMA BeforeHow ==
  ASSUME NEW f \in Files
  PROVE  Sums(Before(f), f, NTypes + 1)
<1> DEFINE b == CHOOSE g : Sums(g, f, NTypes + 1)
<1>1. NTypes + 1 \in Nat
  BY MemoryAssumption DEF MemoryAssumption
<1>2. Sums(b, f, NTypes + 1)
  BY <1>1, SumsExist
<1>3. Before(f) = b
  BY DEF Before, Sums
<1> QED BY <1>2, <1>3

\* Entries of a later type come later.
LEMMA SumsGrow ==
  ASSUME NEW f \in Files, NEW t \in Types, NEW u \in 1..(NTypes + 1), t < u
  PROVE  Before(f)[t] + Len(f[t]) <= Before(f)[u]
<1> DEFINE b == Before(f)
           Bad == {v \in Nat : v \in (t+1)..(NTypes + 1) /\ ~ (b[t] + Len(f[t]) <= b[v])}
<1> SUFFICES ASSUME u \in Bad PROVE FALSE
  BY DEF Types
<1>1. PICK v \in Bad : \A w \in Bad : v <= w
  BY LeastOf
<1>2. NTypes \in Nat
  BY MemoryAssumption DEF MemoryAssumption
<1>3. \A x \in 1..(NTypes + 1) : /\ b[x] \in Nat
                                 /\ x # 1 => b[x] = b[x-1] + Len(f[x-1])
  BY <1>2, BeforeHow, SumsHow
<1>4. v \in (t+1)..(NTypes + 1) /\ v # 1 /\ v - 1 \in Types /\ v \in 1..(NTypes + 1)
  BY <1>2 DEF Types
<1>5. \A x \in Types : Len(f[x]) \in Nat
  BY LenProperties DEF Files
<1>6. b[v] = b[v-1] + Len(f[v-1])
  BY <1>3, <1>4
<1>7. CASE v - 1 = t
  BY <1>3, <1>4, <1>5, <1>6, <1>7
<1>8. CASE v - 1 # t
  <2>1. v - 1 \in (t+1)..(NTypes + 1) /\ ~ (v <= v - 1) /\ v - 1 \in Nat
    BY <1>2, <1>4, <1>8 DEF Types
  <2>2. b[t] + Len(f[t]) <= b[v-1]
    BY <1>1, <2>1
  <2>3. b[v-1] \in Nat /\ b[t] \in Nat /\ Len(f[t]) \in Nat /\ Len(f[v-1]) \in Nat
    BY <1>2, <1>3, <1>4, <1>5 DEF Types
  <2> QED BY <1>4, <1>6, <2>2, <2>3
<1> QED BY <1>7, <1>8

\* find_index_location: an index within a type's entries is found there.
LEMMA LocateHow ==
  ASSUME NEW f \in Files, NEW t \in Types, NEW k \in DOMAIN f[t]
  PROVE  Locate(f, Before(f)[t] + k - 1) = [type |-> t, pos |-> k]
<1> DEFINE b == Before(f)
           i == b[t] + k - 1
           reach == {u \in Types : i < b[u] + Len(f[u])}
<1>1. NTypes \in Nat
  BY MemoryAssumption DEF MemoryAssumption
<1>2. f[t] \in Seq(Content)
  BY DEF Files
<1>3. k \in 1..Len(f[t]) /\ Len(f[t]) \in Nat
  BY <1>2, LenProperties
<1>4. \A x \in Types : b[x] \in Nat
  BY <1>1, BeforeHow, SumsHow DEF Types
<1>5. t \in reach
  BY <1>3, <1>4
<1>6. ASSUME NEW u \in reach PROVE t <= u
  <2> SUFFICES ASSUME ~ (t <= u) PROVE FALSE
    OBVIOUS
  <2>1. u \in Types /\ u < t /\ t \in 1..(NTypes + 1)
    BY <1>1 DEF Types
  <2>2. b[u] + Len(f[u]) <= b[t]
    BY <2>1, SumsGrow
  <2>3. b[u] \in Nat /\ Len(f[u]) \in Nat /\ b[t] \in Nat
    BY <1>4, <2>1, LenProperties DEF Files
  <2> QED BY <1>3, <2>2, <2>3
<1>7. (CHOOSE x \in reach : \A u \in reach : x <= u) = t
  <2>1. \A x \in reach : (\A u \in reach : x <= u) => x = t
    <3> SUFFICES ASSUME NEW x \in reach, \A u \in reach : x <= u PROVE x = t
      OBVIOUS
    <3>1. x <= t /\ t <= x /\ x \in Types
      BY <1>5, <1>6
    <3> QED BY <1>1, <3>1 DEF Types
  <2> HIDE DEF reach
  <2> QED BY <1>5, <1>6, <2>1
<1>8. i - b[t] + 1 = k
  BY <1>3, <1>4
<1>9. Locate(f, i) = [type |-> t, pos |-> i - b[t] + 1]
  BY <1>7 DEF Locate
<1> QED BY <1>8, <1>9

\* memory_recall_filtered: each entry is shown under its own index, whatever the
\* filter leaves out.
LEMMA ShownHow ==
  ASSUME NEW f \in Files, NEW only \in Nat
  PROVE  Shown(f, only) =
           UNION {{<<Before(f)[t] + k - 1, t, k>> : k \in DOMAIN f[t]} :
                    t \in {u \in Types : only \in {0, u}}}
<1> DEFINE b == Before(f)
           s == CHOOSE g : Sums(g, f, NTypes)
<1>1. NTypes \in Nat \ {0} /\ NTypes \in 1..(NTypes + 1)
  BY MemoryAssumption DEF MemoryAssumption
<1>2. Sums(s, f, NTypes)
  BY <1>1, SumsExist
<1>3. Shown(f, only) =
        UNION {{<<s[t] + k - 1, t, k>> : k \in DOMAIN f[t]} :
                  t \in {u \in Types : only \in {0, u}}}
  BY DEF Shown, Skipped, Sums, Types
<1> HIDE DEF s
<1>4. \A t \in Types : s[t] = b[t]
  <2> DEFINE Bad == {t \in Nat : t \in Types /\ s[t] # b[t]}
  <2> SUFFICES ASSUME Bad # {} PROVE FALSE
    BY DEF Types
  <2>1. PICK t \in Bad : \A u \in Bad : t <= u
    BY LeastOf
  <2>2. t \in 1..NTypes /\ t \in 1..(NTypes + 1) /\ s[t] # b[t] /\ t \in Types
    BY <1>1 DEF Types
  <2>3. /\ s[t] = IF t = 1 THEN 0 ELSE s[t-1] + Len(f[t-1])
        /\ b[t] = IF t = 1 THEN 0 ELSE b[t-1] + Len(f[t-1])
    <3> HIDE DEF b
    <3>1. s[t] = IF t = 1 THEN 0 ELSE s[t-1] + Len(f[t-1])
      BY <1>2, <2>2 DEF Sums
    <3>2. b[t] = IF t = 1 THEN 0 ELSE b[t-1] + Len(f[t-1])
      BY <2>2, BeforeHow DEF Sums, b
    <3> QED BY <3>1, <3>2
  <2>4. t # 1 => t - 1 \in Types /\ ~ (t <= t - 1) /\ t - 1 \in Nat
    BY <1>1, <2>2 DEF Types
  <2>5. t # 1 => s[t-1] = b[t-1]
    BY <2>1, <2>4
  <2> QED BY <2>2, <2>3, <2>5
<1> QED BY <1>3, <1>4
\* Delete and update find the very entry that any recall shows under an index.
LEMMA RecallLocates ==
  ASSUME NEW f \in Files, NEW only \in 0..NTypes, NEW s \in Shown(f, only)
  PROVE  /\ s[2] \in Types /\ s[3] \in DOMAIN f[s[2]]
         /\ Locate(f, s[1]) = [type |-> s[2], pos |-> s[3]]
<1>1. only \in Nat
  BY MemoryAssumption DEF MemoryAssumption
<1>2. PICK t \in Types : \E k \in DOMAIN f[t] : s = <<Before(f)[t] + k - 1, t, k>>
  BY <1>1, ShownHow
<1>3. PICK k \in DOMAIN f[t] : s = <<Before(f)[t] + k - 1, t, k>>
  BY <1>2
<1> QED BY <1>3, LocateHow

\* An index in range names the entry that is found under it.
LEMMA IndexNames ==
  ASSUME NEW f \in Files, NEW i \in Indices(f)
  PROVE  LET loc == Locate(f, i) IN
         /\ loc.type \in Types /\ loc.pos \in 1..Len(f[loc.type])
         /\ Named(f, i) = <<loc.type, f[loc.type][loc.pos]>>
<1> DEFINE b == Before(f)
           reach == {u \in Types : i < b[u] + Len(f[u])}
<1>1. NTypes \in Nat \ {0} /\ NTypes \in Types /\ NTypes + 1 \in 1..(NTypes + 1)
  BY MemoryAssumption DEF MemoryAssumption, Types
<1>2. \A x \in 1..(NTypes + 1) : /\ b[x] \in Nat
                                 /\ x = 1 => b[x] = 0
                                 /\ x # 1 => b[x] = b[x-1] + Len(f[x-1])
  BY <1>1, BeforeHow, SumsHow
<1>3. \A x \in Types : f[x] \in Seq(Content) /\ Len(f[x]) \in Nat /\ DOMAIN f[x] = 1..Len(f[x])
  BY LenProperties DEF Files
<1>4. i \in Nat /\ i < b[NTypes + 1]
  BY <1>1, <1>2 DEF Indices
<1>5. NTypes \in reach
  <2>1. b[NTypes + 1] = b[NTypes] + Len(f[NTypes])
    <3>1. NTypes + 1 # 1 /\ (NTypes + 1) - 1 = NTypes
      BY <1>1
    <3> QED BY <1>1, <1>2, <3>1
  <2> QED BY <1>1, <1>4, <2>1
<1>6. reach \in SUBSET Nat /\ reach # {}
  BY <1>5 DEF Types
<1>7. PICK t \in reach : \A u \in reach : t <= u
  BY <1>6, LeastOf
<1>8. t \in Types /\ i < b[t] + Len(f[t]) /\ b[t] \in Nat /\ Len(f[t]) \in Nat
  BY <1>1, <1>2, <1>3 DEF Types
<1>9. b[t] <= i
  <2>1. CASE t = 1
    BY <1>1, <1>2, <1>4, <1>8, <2>1 DEF Types
  <2>2. CASE t # 1
    <3>1. t - 1 \in Types /\ ~ (t <= t - 1) /\ t \in 1..(NTypes + 1)
      BY <1>1, <1>8, <2>2 DEF Types
    <3>2. ~ (i < b[t-1] + Len(f[t-1]))
      BY <1>7, <3>1
    <3>3. b[t] = b[t-1] + Len(f[t-1])
      BY <1>2, <2>2, <3>1
    <3> QED BY <1>4, <1>8, <3>2, <3>3
  <2> QED BY <2>1, <2>2
<1> DEFINE k == i - b[t] + 1
<1>10. k \in 1..Len(f[t]) /\ b[t] + k - 1 = i
  BY <1>4, <1>8, <1>9
<1>11. k \in DOMAIN f[t]
  BY <1>3, <1>8, <1>10
<1> HIDE DEF k
<1>12. Locate(f, i) = [type |-> t, pos |-> k]
  BY <1>8, <1>10, <1>11, LocateHow
<1>13. <<i, t, k>> \in Shown(f, 0)
  <2>1. Shown(f, 0) = UNION {{<<b[u] + j - 1, u, j>> : j \in DOMAIN f[u]} :
                               u \in {v \in Types : 0 \in {0, v}}}
    BY ShownHow
  <2>2. <<i, t, k>> \in {<<b[t] + j - 1, t, j>> : j \in DOMAIN f[t]}
    BY <1>10, <1>11
  <2>3. t \in {v \in Types : 0 \in {0, v}}
    BY <1>8
  <2> HIDE DEF b
  <2> QED BY <2>1, <2>2, <2>3
<1>14. ASSUME NEW s \in Shown(f, 0), s[1] = i PROVE s[2] = t /\ s[3] = k
  <2>1. 0 \in 0..NTypes
    BY <1>1
  <2>2. Locate(f, i) = [type |-> s[2], pos |-> s[3]]
    BY <1>14, <2>1, RecallLocates
  <2> QED BY <1>12, <2>2
<1>15. Named(f, i) = <<t, f[t][k]>>
  <2> DEFINE c == CHOOSE s \in Shown(f, 0) : s[1] = i
  <2>1. c \in Shown(f, 0) /\ c[1] = i
    <3>1. <<i, t, k>>[1] = i
      OBVIOUS
    <3> QED BY <1>13, <3>1
  <2>2. c[2] = t /\ c[3] = k
    BY <1>14, <2>1
  <2>3. Named(f, i) = <<c[2], f[c[2]][c[3]]>>
    BY DEF Named
  <2> QED BY <2>2, <2>3
<1> QED BY <1>8, <1>10, <1>12, <1>15
------------------------------------------------------------------------------
(***************************************************************************)
(* Reading a file back.                                                    *)
(***************************************************************************)
PlainSeq == {es \in Seq(Content) : \A k \in DOMAIN es : Plain(es[k])}

Flats(g, ss, n) == g = [i \in 1..n |-> IF i = 1 THEN ss[i] ELSE g[i-1] \o ss[i]]

\* The concatenation of a sequence of sequences exists.
LEMMA FlatsExist ==
  ASSUME NEW ss
  PROVE  \A n \in Nat : \E g : Flats(g, ss, n)
<1> DEFINE Bad == {n \in Nat : ~ \E g : Flats(g, ss, n)}
<1> SUFFICES ASSUME Bad # {} PROVE FALSE
  OBVIOUS
<1>1. PICK n \in Bad : \A m \in Bad : n <= m
  BY LeastOf
<1>2. n \in Nat /\ ~ \E g : Flats(g, ss, n)
  OBVIOUS
<1>3. CASE n = 0
  <2>1. Flats([t \in 1..0 |-> 0], ss, 0)
    BY DEF Flats
  <2> QED BY <1>2, <1>3, <2>1
<1>4. CASE n # 0
  <2>1. n - 1 \in Nat /\ ~ (n <= n - 1)
    BY <1>2, <1>4
  <2>2. PICK h : Flats(h, ss, n - 1)
    BY <1>1, <2>1
  <2> DEFINE e(g, t) == IF t = 1 THEN ss[t] ELSE g[t-1] \o ss[t]
             g == [t \in 1..n |-> IF t < n THEN h[t] ELSE e(h, n)]
  <2>3. ASSUME NEW t \in 1..n PROVE g[t] = e(g, t)
    <3>1. CASE t < n
      <4>1. t \in 1..(n - 1) /\ g[t] = h[t] /\ (t # 1 => t - 1 \in 1..n /\ t - 1 < n)
        BY <1>2, <3>1
      <4>2. h[t] = e(h, t)
        BY <2>2, <4>1 DEF Flats
      <4>3. t # 1 => g[t - 1] = h[t - 1]
        BY <4>1
      <4> QED BY <4>1, <4>2, <4>3
    <3>2. CASE ~ (t < n)
      <4>1. t = n /\ (t # 1 => t - 1 \in 1..n /\ t - 1 < n)
        BY <1>2, <3>2
      <4>2. t # 1 => g[t - 1] = h[t - 1]
        BY <4>1
      <4>3. g[t] = e(h, n)
        BY <3>2
      <4> QED BY <4>1, <4>2, <4>3
    <3> QED BY <3>1, <3>2
  <2>4. Flats(g, ss, n)
    BY <2>3 DEF Flats
  <2> QED BY <1>2, <2>4
<1> QED BY <1>3, <1>4

\* How a file is read back, one written entry after the other.
LEMMA ReadBackHow ==
  ASSUME NEW es \in Seq(Content)
  PROVE  /\ es = <<>> => ReadBack(es) = <<>>
         /\ es # <<>> => \E g : /\ ReadBack(es) = g[Len(es)]
                                /\ \A i \in 1..Len(es) :
                                     g[i] = IF i = 1 THEN Lines[es[i]] ELSE g[i-1] \o Lines[es[i]]
<1> DEFINE ss == [k \in DOMAIN es |-> Lines[es[k]]]
           n  == Len(es)
           g  == CHOOSE h : Flats(h, ss, n)
<1>1. n \in Nat /\ DOMAIN es = 1..n
  BY LenProperties
<1>2. ss = [k \in 1..n |-> Lines[es[k]]]
  BY <1>1
<1>3. Len(ss) = n
  <2> HIDE DEF n
  <2> QED BY <1>1, <1>2
<1>4. CASE es = <<>>
  <2>1. n = 0
    BY <1>4
  <2>2. ss = <<>>
    BY <1>2, <2>1
  <2>3. ReadBack(es) = ss
    BY <1>3, <2>1 DEF ReadBack, FlattenSeq
  <2> QED BY <1>4, <2>2, <2>3
<1>5. CASE es # <<>>
  <2>1. n # 0
    BY <1>5, EmptySeq
  <2>2. Flats(g, ss, n)
    BY <1>1, FlatsExist
  <2>3. ReadBack(es) = g[n]
    BY <1>3, <2>1 DEF ReadBack, FlattenSeq, Flats
  <2> HIDE DEF g
  <2>4. \A i \in 1..n : g[i] = IF i = 1 THEN ss[i] ELSE g[i-1] \o ss[i]
    BY <2>2 DEF Flats
  <2>5. \A i \in 1..n : ss[i] = Lines[es[i]]
    BY <1>2
  <2>6. \A i \in 1..n : g[i] = IF i = 1 THEN Lines[es[i]] ELSE g[i-1] \o Lines[es[i]]
    <3> HIDE DEF ss, n
    <3> QED BY <2>4, <2>5, Zenon
  <2> QED BY <1>5, <2>3, <2>6
<1> QED BY <1>4, <1>5

\* Sequences of one-line entries, put together, are one.
LEMMA ConcatPlain ==
  ASSUME NEW a \in PlainSeq, NEW c \in PlainSeq
  PROVE  a \o c \in PlainSeq
<1>1. a \in Seq(Content) /\ c \in Seq(Content)
  BY DEF PlainSeq
<1>2. /\ a \o c \in Seq(Content) /\ Len(a \o c) = Len(a) + Len(c)
      /\ \A i \in 1..(Len(a) + Len(c)) :
           (a \o c)[i] = IF i <= Len(a) THEN a[i] ELSE c[i - Len(a)]
  BY <1>1, ConcatProperties
<1>3. /\ Len(a) \in Nat /\ DOMAIN a = 1..Len(a)
      /\ Len(c) \in Nat /\ DOMAIN c = 1..Len(c)
      /\ DOMAIN (a \o c) = 1..Len(a \o c)
  BY <1>1, <1>2, LenProperties
<1>4. ASSUME NEW k \in DOMAIN (a \o c) PROVE Plain((a \o c)[k])
  <2>1. k \in 1..(Len(a) + Len(c))
    BY <1>2, <1>3
  <2>2. CASE k <= Len(a)
    <3>1. (a \o c)[k] = a[k] /\ k \in DOMAIN a
      BY <1>2, <1>3, <2>1, <2>2
    <3> QED BY <3>1 DEF PlainSeq
  <2>3. CASE ~ (k <= Len(a))
    <3>1. (a \o c)[k] = c[k - Len(a)] /\ k - Len(a) \in DOMAIN c
      BY <1>2, <1>3, <2>1, <2>3
    <3> QED BY <3>1 DEF PlainSeq
  <2> QED BY <2>2, <2>3
<1> QED BY <1>2, <1>4 DEF PlainSeq

\* What a content is read back as are one-line entries.
LEMMA LinesPlain ==
  ASSUME NEW x \in Content
  PROVE  Lines[x] \in PlainSeq
  BY MemoryAssumption DEF MemoryAssumption, PlainSeq

\* Whatever was written, what is read back are one-line entries.
LEMMA ReadBackPlain ==
  ASSUME NEW es \in Seq(Content)
  PROVE  ReadBack(es) \in PlainSeq
<1>1. Len(es) \in Nat /\ \A k \in 1..Len(es) : es[k] \in Content
  BY LenProperties, ElementOfSeq
<1>2. CASE es = <<>>
  <2>1. <<>> \in Seq(Content) /\ DOMAIN <<>> = {}
    BY EmptySeq
  <2> QED BY <1>2, <2>1, ReadBackHow DEF PlainSeq
<1>3. CASE es # <<>>
  <2>1. PICK g : /\ ReadBack(es) = g[Len(es)]
                 /\ \A i \in 1..Len(es) :
                      g[i] = IF i = 1 THEN Lines[es[i]] ELSE g[i-1] \o Lines[es[i]]
    BY <1>3, ReadBackHow
  <2>2. Len(es) # 0
    BY <1>3, EmptySeq
  <2> DEFINE Bad == {i \in Nat : i \in 1..Len(es) /\ g[i] \notin PlainSeq}
  <2> SUFFICES ASSUME Len(es) \in Bad PROVE FALSE
    BY <1>1, <2>1, <2>2
  <2>3. PICK i \in Bad : \A j \in Bad : i <= j
    BY LeastOf
  <2>4. i \in 1..Len(es) /\ g[i] \notin PlainSeq /\ Lines[es[i]] \in PlainSeq
    BY <1>1, LinesPlain
  <2>5. i # 1
    BY <2>1, <2>4
  <2>6. i - 1 \in 1..Len(es) /\ ~ (i <= i - 1) /\ i - 1 \in Nat
    BY <1>1, <2>4, <2>5
  <2>7. g[i-1] \in PlainSeq
    BY <2>3, <2>6
  <2>8. g[i] = g[i-1] \o Lines[es[i]]
    BY <2>1, <2>4, <2>5
  <2> QED BY <2>4, <2>7, <2>8, ConcatPlain
<1> QED BY <1>2, <1>3
------------------------------------------------------------------------------
(***************************************************************************)
(* The types of the state.                                                 *)
(***************************************************************************)
CallType ==
  [op : Op, at : At, type : Types, pos : Nat, buf : Seq(Content),
   todo : Seq(Types \X Content), named : {<<>>} \cup (Types \X Content),
   sent : Seq(1..MaxSeen), blind : BOOLEAN]

\* A call that is under way is of some operation; an entry that was found has a
\* place, and an update something to put there.
Stage(c) ==
  /\ c.at = "idle" <=> c.op = "none"
  /\ c.at = "located" =>
       /\ c.op \in {"delete", "update"} /\ c.pos # 0
       /\ c.op = "update" => c.todo # <<>>

Calls == call \in [Agents -> CallType] /\ \A a \in Agents : Stage(call[a])

TypeInv ==
  /\ files \in [Types -> PlainSeq]
  /\ obs \in Seq(1..MaxSeen) /\ Len(obs) <= MaxObs
  /\ Calls
  /\ \A a \in Agents : call[a].at # "idle" => up
  /\ up \in BOOLEAN /\ full \in BOOLEAN
  /\ ops \in 0..MaxOps /\ seen \in 0..MaxSeen /\ starts \in 0..MaxStarts

\* An agent without a call, and the empty lists of a call, are of their types.
LEMMA NoCallTyped == NoCall \in CallType /\ Stage(NoCall)
  BY MemoryAssumption DEF CallType, NoCall, MemoryAssumption, Types, Op, At, Stage

LEMMA NothingTyped == <<>> \in Seq(Content) /\ <<>> \in Seq(Types \X Content)
  BY EmptySeq

\* The types here imply those of the model.
LEMMA TypeInvImplies == TypeInv => TypeOK
<1> SUFFICES ASSUME TypeInv PROVE TypeOK
  OBVIOUS
<1>1. files \in [Types -> Seq(Content)] /\ \A t \in Types : \A k \in DOMAIN files[t] : Plain(files[t][k])
  BY DEF TypeInv, PlainSeq
<1>2. ASSUME NEW a \in Agents
      PROVE  /\ DOMAIN call[a] = DOMAIN NoCall
             /\ call[a].op \in Op /\ call[a].at \in At /\ call[a].type \in Types
             /\ call[a].at = "idle" <=> call[a].op = "none"
             /\ call[a].buf \in Seq(Content) /\ call[a].todo \in Seq(Types \X Content)
             /\ call[a].blind \in BOOLEAN
             /\ call[a].at # "idle" => up
  <2>1. call[a] \in CallType /\ Stage(call[a]) /\ (call[a].at # "idle" => up)
    BY DEF TypeInv, Calls
  <2>2. DOMAIN call[a] = DOMAIN NoCall
    BY <2>1 DEF CallType, NoCall
  <2> QED BY <2>1, <2>2 DEF CallType, Stage
<1> QED BY <1>1, <1>2 DEF TypeInv, TypeOK

\* One call goes on, and all else is as it was.
LEMMA CallGoes ==
  ASSUME TypeInv, NEW a \in Agents, NEW c \in CallType, Stage(c),
         c.at # "idle" => up', call' = [call EXCEPT ![a] = c], up' = up \/ up'
  PROVE  Calls' /\ \A b \in Agents : call[b]'.at # "idle" => up'
  BY DEF TypeInv, Calls

\* A call that goes on, and one that begins, keeps the types.
LEMMA GoTyped ==
  ASSUME TypeInv, NEW a \in Agents, NEW c \in CallType, Stage(c), up, Go(a, c)
  PROVE  TypeInv'
  BY CallGoes DEF Go, counters, TypeInv

LEMMA BeginTyped ==
  ASSUME TypeInv, NEW a \in Agents, NEW c \in CallType, Stage(c), Begin(a, c)
  PROVE  TypeInv'
<1>1. ops' \in 0..MaxOps
  BY MemoryAssumption DEF Begin, TypeInv, MemoryAssumption
<1> QED BY <1>1, CallGoes DEF Begin, Free, TypeInv

\* A type's file is a sequence of one-line entries.
LEMMA PlainOf ==
  ASSUME NEW t \in Types, files \in [Types -> PlainSeq]
  PROVE  /\ files[t] \in PlainSeq /\ files[t] \in Seq(Content)
         /\ Len(files[t]) \in Nat /\ DOMAIN files[t] = 1..Len(files[t])
  BY LenProperties DEF PlainSeq

\* A part of a file is one.
LEMMA PartPlain ==
  ASSUME NEW es \in PlainSeq, NEW n \in Nat, n <= Len(es)
  PROVE  SubSeq(es, 1, n) \in PlainSeq
<1>1. es \in Seq(Content) /\ Len(es) \in Nat /\ DOMAIN es = 1..Len(es)
  BY LenProperties DEF PlainSeq
<1>2. \A i \in 1..n : es[i] \in Content /\ Plain(es[i])
  BY <1>1, ElementOfSeq DEF PlainSeq
<1>3. /\ SubSeq(es, 1, n) \in Seq(Content)
      /\ Len(SubSeq(es, 1, n)) = IF 1 <= n THEN n - 1 + 1 ELSE 0
      /\ \A i \in 1..(n - 1 + 1) : SubSeq(es, 1, n)[i] = es[1 + i - 1]
  BY <1>2, SubSeqProperties
<1>4. /\ Len(SubSeq(es, 1, n)) = n
      /\ \A i \in 1..n : SubSeq(es, 1, n)[i] = es[i]
  BY <1>3
<1>5. DOMAIN SubSeq(es, 1, n) = 1..n
  BY <1>3, <1>4, LenProperties
<1> QED BY <1>2, <1>3, <1>4, <1>5 DEF PlainSeq

\* Files of which some cannot be read.
LEMMA ReadTyped ==
  ASSUME files \in [Types -> PlainSeq], NEW U
  PROVE  Read(files, U) \in [Types -> PlainSeq] /\ Read(files, U) \in Files
<1>1. <<>> \in PlainSeq
  <2>1. <<>> \in Seq(Content) /\ DOMAIN <<>> = {}
    BY EmptySeq
  <2> QED BY <2>1 DEF PlainSeq
<1>2. Read(files, U) \in [Types -> PlainSeq]
  BY <1>1 DEF Read
<1>3. PlainSeq \subseteq Seq(Content)
  BY DEF PlainSeq
<1> HIDE DEF Read
<1> QED BY <1>2, <1>3 DEF Files

\* What Edit makes of its copy.
LEMMA EditsTyped ==
  ASSUME NEW es \in Seq(Content), NEW k \in 1..Len(es), NEW x \in Content
  PROVE  Without(es, k) \in Seq(Content) /\ ReplaceAt(es, k, x) \in Seq(Content)
<1>1. Len(es) \in Nat /\ \A i \in 1..Len(es) : es[i] \in Content
  BY LenProperties, ElementOfSeq
<1>2. ReplaceAt(es, k, x) \in Seq(Content)
  BY ExceptSeq DEF ReplaceAt
<1>3. SubSeq(es, 1, k-1) \in Seq(Content)
  <2>1. \A i \in 1..(k-1) : es[i] \in Content
    BY <1>1
  <2> QED BY <2>1, SubSeqProperties
<1>4. SubSeq(es, k+1, Len(es)) \in Seq(Content)
  <2>1. \A i \in (k+1)..Len(es) : es[i] \in Content
    BY <1>1
  <2> QED BY <1>1, <2>1, SubSeqProperties
<1> QED BY <1>2, <1>3, <1>4, ConcatProperties DEF Without, RemoveAt
------------------------------------------------------------------------------
\* The types hold at first, and each operation keeps them.
LEMMA InitTyped == Init => TypeInv
<1> SUFFICES ASSUME Init PROVE TypeInv
  OBVIOUS
<1>1. <<>> \in PlainSeq /\ <<>> \in Seq(1..MaxSeen) /\ Len(<<>>) = 0
  <2>1. <<>> \in Seq(Content) /\ DOMAIN <<>> = {}
    BY EmptySeq
  <2> QED BY <2>1, EmptySeq DEF PlainSeq
<1>2. NoCall.at = "idle"
  BY DEF NoCall
<1>3. Calls /\ \A a \in Agents : call[a].at # "idle" => up
  BY <1>2, NoCallTyped DEF Init, Calls
<1>4. 0 \in 0..MaxOps /\ 0 \in 0..MaxSeen /\ 0 \in 0..MaxStarts /\ 0 <= MaxObs
  BY MemoryAssumption DEF MemoryAssumption
<1> QED BY <1>1, <1>3, <1>4 DEF Init, TypeInv

LEMMA StartTyped ==
  ASSUME TypeInv, Start \/ StartFails
  PROVE  TypeInv'
<1>1. starts' \in 0..MaxStarts /\ up' = TRUE
  BY MemoryAssumption DEF Start, StartFails, TypeInv, MemoryAssumption
<1>a. files' \in [Types -> PlainSeq]
  BY ReadTyped DEF Start, StartFails, EnsureFiles, TypeInv
<1>2. CASE Start
  <2> DEFINE c == [NoCall EXCEPT !.op = "migrate", !.at = "unique", !.todo = Legacy]
  <2>1. c \in CallType /\ Stage(c) /\ Main \in Agents
    BY NoCallTyped, MemoryAssumption DEF CallType, Stage, Op, At, MemoryAssumption
  <2>2. call' = [call EXCEPT ![Main] = c]
    BY <1>2 DEF Start
  <2> HIDE DEF c
  <2>3. Calls' /\ \A b \in Agents : call[b]'.at # "idle" => up'
    BY <1>1, <2>1, <2>2 DEF TypeInv, Calls
  <2> QED BY <1>1, <1>a, <1>2, <2>3 DEF Start, TypeInv
<1>3. CASE StartFails
  BY <1>1, <1>a, <1>3 DEF StartFails, TypeInv, Calls
<1> QED BY <1>2, <1>3

LEMMA RememberTyped ==
  ASSUME TypeInv, NEW a \in Agents, NEW t \in Types, NEW x \in Content, Remember(a, t, x)
  PROVE  TypeInv'
<1> DEFINE c == [NoCall EXCEPT !.op = "remember", !.at = "unique", !.todo = <<<<t, x>>>>]
<1>1. <<<<t, x>>>> \in Seq(Types \X Content)
  OBVIOUS
<1>2. c \in CallType /\ Stage(c)
  BY <1>1, NoCallTyped DEF CallType, Stage, Op, At
<1>3. Begin(a, c)
  BY DEF Remember
<1> HIDE DEF c
<1> QED BY <1>2, <1>3, BeginTyped

LEMMA FindTyped ==
  ASSUME TypeInv, NEW a \in Agents, NEW i \in Indices(files), NEW op \in {"delete", "update"},
         NEW new \in Seq(Types \X Content), op = "update" => new # <<>>,
         Find(a, i, op, new)
  PROVE  TypeInv'
<1>0. PICK U \in Unreadable :
        /\ i \in Indices(Read(files, U))
        /\ Begin(a, [NoCall EXCEPT !.op = op, !.at = "located", !.todo = new,
                       !.type = Locate(Read(files, U), i).type,
                       !.pos = Locate(Read(files, U), i).pos, !.named = Named(files, i),
                       !.blind = U # {}])
  BY DEF Find
<1> DEFINE f   == Read(files, U)
           loc == Locate(f, i)
           was == Locate(files, i)
           c   == [NoCall EXCEPT !.op = op, !.at = "located", !.todo = new,
                     !.type = loc.type, !.pos = loc.pos, !.named = Named(files, i),
                     !.blind = U # {}]
<1>1. files \in Files /\ f \in Files /\ i \in Indices(f)
  BY <1>0, ReadTyped DEF TypeInv, Files, PlainSeq
<1>3. Begin(a, c)
  BY <1>0
<1> HIDE DEF f
<1>2. loc.type \in Types /\ loc.pos \in 1..Len(f[loc.type])
  BY <1>1, IndexNames
<1>a. /\ was.type \in Types /\ was.pos \in 1..Len(files[was.type])
      /\ Named(files, i) = <<was.type, files[was.type][was.pos]>>
  BY <1>1, IndexNames
<1> HIDE DEF loc, was
<1>4. files[was.type][was.pos] \in Content /\ Len(f[loc.type]) \in Nat
  BY <1>1, <1>2, <1>a, ElementOfSeq, LenProperties DEF Files
<1>5. Named(files, i) \in Types \X Content /\ loc.pos \in Nat /\ loc.pos # 0
  BY <1>2, <1>a, <1>4
<1>6. c \in CallType
  BY <1>2, <1>5, NoCallTyped DEF CallType, Op, At
<1>7. Stage(c)
  BY <1>5, NoCallTyped DEF Stage, CallType
<1> HIDE DEF c
<1> QED BY <1>3, <1>6, <1>7, BeginTyped

LEMMA EditTyped ==
  ASSUME TypeInv, NEW a \in Agents, Edit(a)
  PROVE  TypeInv'
<1> DEFINE c  == call[a]
           es == files[c.type]
<1>1. /\ c \in CallType /\ c.at = "located" /\ Stage(c) /\ up
      /\ c.pos \in Nat \ {0} /\ c.type \in Types /\ c.todo \in Seq(Types \X Content)
      /\ c.op \in {"delete", "update"} /\ (c.op = "update" => c.todo # <<>>)
  BY DEF Edit, TypeInv, Calls, Stage, CallType
<1>2. es \in Seq(Content) /\ Len(es) \in Nat
  BY <1>1, PlainOf DEF TypeInv
<1>3. CASE Go(a, NoCall)
  BY <1>1, <1>3, GoTyped, NoCallTyped
<1>4. CASE /\ c.pos <= Len(es) /\ c.op = "update"
           /\ Go(a, [c EXCEPT !.at = "rewrite", !.todo = <<>>,
                       !.buf = ReplaceAt(es, c.pos, c.todo[1][2])])
  <2> DEFINE d == [c EXCEPT !.at = "rewrite", !.todo = <<>>,
                     !.buf = ReplaceAt(es, c.pos, c.todo[1][2])]
  <2>1. c.todo[1][2] \in Content
    <3>1. 1 \in 1..Len(c.todo)
      BY <1>1, <1>4, EmptySeq, LenProperties
    <3> QED BY <1>1, <3>1, ElementOfSeq
  <2>2. ReplaceAt(es, c.pos, c.todo[1][2]) \in Seq(Content)
    BY <1>1, <1>2, <1>4, <2>1, EditsTyped
  <2>3. d \in CallType /\ Stage(d)
    BY <1>1, <2>2, NothingTyped DEF CallType, At, Stage
  <2> HIDE DEF d
  <2> QED BY <1>1, <1>4, <2>3, GoTyped DEF d
<1>5. CASE /\ c.pos <= Len(es)
           /\ Go(a, [c EXCEPT !.at = "rewrite", !.buf = Without(es, c.pos)])
  <2> DEFINE d == [c EXCEPT !.at = "rewrite", !.buf = Without(es, c.pos)]
  <2>1. c.pos \in 1..Len(es)
    BY <1>1, <1>2, <1>5
  <2>2. Without(es, c.pos) \in Seq(Content)
    <3>1. es[c.pos] \in Content
      BY <1>2, <2>1, ElementOfSeq
    <3> QED BY <1>2, <2>1, <3>1, EditsTyped
  <2>3. d \in CallType /\ Stage(d)
    BY <1>1, <2>2 DEF CallType, At, Stage
  <2> HIDE DEF d
  <2> QED BY <1>1, <1>5, <2>3, GoTyped DEF d
<1> QED BY <1>3, <1>4, <1>5 DEF Edit

LEMMA ReadUniqueTyped ==
  ASSUME TypeInv, NEW a \in Agents, ReadUnique(a)
  PROVE  TypeInv'
<1> DEFINE c == call[a]
           t == c.todo[1][1]
           x == c.todo[1][2]
<1>1. /\ c \in CallType /\ c.at = "unique" /\ Stage(c) /\ up
      /\ c.todo \in Seq(Types \X Content) /\ c.todo # <<>>
  BY DEF ReadUnique, TypeInv, Calls, CallType
<1>2. t \in Types /\ x \in Content
  <2>1. 1 \in 1..Len(c.todo)
    BY <1>1, EmptySeq, LenProperties
  <2> QED BY <1>1, <2>1, ElementOfSeq
<1>3. Append(files[t], x) \in Seq(Content)
  BY <1>2, PlainOf, AppendProperties DEF TypeInv
<1>4. Tail(c.todo) \in Seq(Types \X Content)
  BY <1>1, HeadTailProperties
<1> DEFINE d == [c EXCEPT !.todo = Tail(@)]
           e == [c EXCEPT !.todo = Tail(@), !.at = "append", !.type = t,
                   !.buf = Append(files[t], x)]
           b == [c EXCEPT !.todo = Tail(@), !.at = "append", !.type = t,
                   !.buf = <<x>>, !.blind = TRUE]
<1>5. Go(a, d) \/ Go(a, e) \/ Go(a, b)
  BY DEF ReadUnique
<1>6. d \in CallType /\ Stage(d)
  BY <1>1, <1>4 DEF CallType, Stage
<1>7. e \in CallType /\ Stage(e)
  <2> HIDE DEF t, x
  <2> QED BY <1>1, <1>2, <1>3, <1>4 DEF CallType, At, Stage
<1>8. b \in CallType /\ Stage(b)
  <2> HIDE DEF t, x
  <2>1. <<x>> \in Seq(Content)
    BY <1>2
  <2> QED BY <1>1, <1>2, <1>4, <2>1 DEF CallType, At, Stage
<1> HIDE DEF d, e, b
<1> QED BY <1>1, <1>5, <1>6, <1>7, <1>8, GoTyped

\* The same, of the three fields by name.
LEMMA WrittenCall ==
  ASSUME Calls, NEW a \in Agents, NEW es, WriteAs(a, es)
  PROVE  call' = [call EXCEPT ![a] = [call[a] EXCEPT !.at = "unique", !.buf = <<>>,
                                                     !.blind = FALSE]]
  BY DEF Calls, CallType, WriteAs

LEMMA WriteTyped ==
  ASSUME TypeInv, NEW a \in Agents, NEW es \in PlainSeq, WriteAs(a, es)
  PROVE  TypeInv'
<1> DEFINE d == [call[a] EXCEPT !.at = "unique", !.buf = <<>>, !.blind = FALSE]
<1>1. call[a] \in CallType /\ Stage(call[a]) /\ call[a].at \in {"rewrite", "append"} /\ up
  BY DEF WriteAs, TypeInv, Calls
<1>2. d \in CallType /\ Stage(d)
  BY <1>1, NothingTyped DEF CallType, At, Stage
<1>3. call' = [call EXCEPT ![a] = d]
  BY WrittenCall DEF TypeInv
<1> HIDE DEF d
<1>4. Calls' /\ \A b \in Agents : call[b]'.at # "idle" => up'
  BY <1>1, <1>2, <1>3 DEF TypeInv, Calls, WriteAs
<1>5. files' \in [Types -> PlainSeq]
  BY DEF WriteAs, TypeInv
<1> QED BY <1>4, <1>5 DEF WriteAs, TypeInv, counters

LEMMA WritesTyped ==
  ASSUME TypeInv, NEW a \in Agents, Write(a) \/ WriteShort(a)
  PROVE  TypeInv'
<1> DEFINE r == ReadBack(call[a].buf)
<1>1. call[a].buf \in Seq(Content)
  BY DEF TypeInv, Calls, CallType
<1>2. r \in PlainSeq
  BY <1>1, ReadBackPlain
<1>3. Len(r) \in Nat
  BY <1>2, LenProperties DEF PlainSeq
<1>4. CASE Write(a)
  BY <1>2, <1>4, WriteTyped DEF Write
<1>5. CASE WriteShort(a)
  <2>1. PICK n \in 0..(Len(r) - 1) : WriteAs(a, SubSeq(r, 1, n))
    BY <1>5 DEF WriteShort
  <2>2. SubSeq(r, 1, n) \in PlainSeq
    BY <1>2, <1>3, PartPlain
  <2> QED BY <2>1, <2>2, WriteTyped
<1> QED BY <1>4, <1>5

LEMMA WriteFailsTyped ==
  ASSUME TypeInv, NEW a \in Agents, WriteFails(a)
  PROVE  TypeInv'
<1> DEFINE d == [call[a] EXCEPT !.at = "unique", !.buf = <<>>, !.blind = FALSE,
                   !.todo = IF call[a].at = "rewrite" THEN <<>> ELSE @]
<1>1. call[a] \in CallType /\ Stage(call[a]) /\ call[a].at \in {"rewrite", "append"} /\ up
  BY DEF WriteFails, TypeInv, Calls
<1>2. d \in CallType /\ Stage(d)
  BY <1>1, NothingTyped DEF CallType, At, Stage
<1>3. Go(a, d)
  BY DEF WriteFails
<1> HIDE DEF d
<1> QED BY <1>1, <1>2, <1>3, GoTyped

LEMMA FinishTyped ==
  ASSUME TypeInv, NEW a \in Agents, Finish(a)
  PROVE  TypeInv'
<1>1. Calls' /\ \A b \in Agents : call[b]'.at # "idle" => up'
  <2>1. NoCall.at = "idle" /\ up' = up
    BY DEF NoCall, Finish
  <2> QED BY <2>1, NoCallTyped, CallGoes DEF Finish
<1>2. <<>> \in Seq(1..MaxSeen) /\ Len(<<>>) <= MaxObs
  BY EmptySeq, MemoryAssumption DEF MemoryAssumption
<1>3. obs' \in Seq(1..MaxSeen) /\ Len(obs') <= MaxObs
  BY <1>2 DEF Finish, TypeInv
<1> QED BY <1>1, <1>3 DEF Finish, TypeInv, counters

LEMMA ConsolidateTyped ==
  ASSUME TypeInv, Consolidate
  PROVE  TypeInv'
<1> DEFINE c == [NoCall EXCEPT !.op = "consolidate", !.at = "asked", !.sent = obs]
<1>1. c \in CallType /\ Stage(c) /\ Main \in Agents
  BY NoCallTyped, MemoryAssumption DEF CallType, Stage, Op, At, TypeInv, MemoryAssumption
<1>2. Begin(Main, c)
  BY DEF Consolidate
<1> HIDE DEF c
<1> QED BY <1>1, <1>2, BeginTyped

LEMMA AnswerTyped ==
  ASSUME TypeInv, NEW ms \in Answers, Answer(ms)
  PROVE  TypeInv'
<1>0. Main \in Agents /\ ms \in Seq(Types \X Content) /\ MaxAnswer \in Nat
  BY MemoryAssumption DEF MemoryAssumption
<1>1. call[Main] \in CallType /\ Stage(call[Main]) /\ call[Main].at = "asked" /\ up
  BY <1>0 DEF Answer, TypeInv, Calls
<1>2. TypeInv'
  <2> DEFINE n == IF Len(ms) < MaxAnswer THEN Len(ms) ELSE MaxAnswer
             d == [call[Main] EXCEPT !.at = "unique", !.todo = SubSeq(ms, 1, n)]
  <2>1. Len(ms) \in Nat /\ n \in Nat /\ n <= Len(ms)
    BY <1>0, LenProperties
  <2>2. \A i \in 1..n : ms[i] \in Types \X Content
    BY <1>0, <2>1, ElementOfSeq
  <2>3. Go(Main, d)
    BY DEF Answer
  <2> HIDE DEF n
  <2>4. SubSeq(ms, 1, n) \in Seq(Types \X Content)
    BY <2>1, <2>2, SubSeqProperties
  <2>5. d \in CallType /\ Stage(d)
    BY <1>1, <2>4 DEF CallType, At, Stage
  <2> HIDE DEF d
  <2> QED BY <1>0, <1>1, <2>3, <2>5, GoTyped
<1> QED BY <1>2

LEMMA AnswerFailsTyped ==
  ASSUME TypeInv, AnswerFails
  PROVE  TypeInv'
  BY MemoryAssumption, GoTyped, NoCallTyped
  DEF AnswerFails, TypeInv, Calls, MemoryAssumption

LEMMA ObserveTyped ==
  ASSUME TypeInv, Observe
  PROVE  TypeInv'
<1>0. MaxObs \in Nat \ {0} /\ MaxSeen \in Nat
  BY MemoryAssumption DEF MemoryAssumption
<1>1. seen + 1 \in 1..MaxSeen /\ seen' \in 0..MaxSeen
  BY <1>0 DEF Observe, TypeInv
<1>2. obs \in Seq(1..MaxSeen) /\ Len(obs) \in Nat /\ Len(obs) <= MaxObs
  BY LenProperties DEF TypeInv
<1>3. obs' \in Seq(1..MaxSeen) /\ Len(obs') <= MaxObs
  <2>1. CASE Len(obs) >= MaxObs
    <3>1. obs # <<>>
      BY <1>0, <2>1, EmptySeq
    <3>2. Tail(obs) \in Seq(1..MaxSeen) /\ Len(Tail(obs)) = Len(obs) - 1
      BY <1>2, <3>1, HeadTailProperties
    <3>3. obs' = Append(Tail(obs), seen + 1)
      BY <2>1 DEF Observe, ObsAdd
    <3>4. obs' \in Seq(1..MaxSeen) /\ Len(obs') = Len(Tail(obs)) + 1
      BY <1>1, <3>2, <3>3, AppendProperties
    <3> QED BY <1>0, <1>2, <3>2, <3>4
  <2>2. CASE ~ (Len(obs) >= MaxObs)
    <3>1. obs' = Append(obs, seen + 1)
      BY <2>2 DEF Observe, ObsAdd
    <3>2. obs' \in Seq(1..MaxSeen) /\ Len(obs') = Len(obs) + 1
      BY <1>1, <1>2, <3>1, AppendProperties
    <3> QED BY <1>0, <1>2, <2>2, <3>2
  <2> QED BY <2>1, <2>2
<1> QED BY <1>1, <1>3 DEF Observe, TypeInv, Calls

LEMMA EndTyped ==
  ASSUME TypeInv, Exit \/ Crash \/ DiskFills
  PROVE  TypeInv'
<1>1. <<>> \in Seq(1..MaxSeen) /\ Len(<<>>) <= MaxObs /\ NoCall.at = "idle"
  BY EmptySeq, MemoryAssumption DEF MemoryAssumption, NoCall
<1>2. CASE Exit
  BY <1>1, <1>2 DEF Exit, Free, TypeInv, Calls, counters
<1>3. CASE Crash
  <2>1. Calls' /\ \A a \in Agents : call'[a].at = "idle"
    BY <1>1, <1>3, NoCallTyped DEF Crash, Calls
  <2> QED BY <1>1, <1>3, <2>1 DEF Crash, TypeInv, counters
<1>4. CASE DiskFills
  BY <1>4 DEF DiskFills, TypeInv, Calls, counters
<1> QED BY <1>2, <1>3, <1>4

\* So every step keeps them.
LEMMA NextTyped == TypeInv /\ [Next]_vars => TypeInv'
<1> SUFFICES ASSUME TypeInv, [Next]_vars
             PROVE  TypeInv'
  OBVIOUS
<1>1. CASE Start \/ StartFails
  BY <1>1, StartTyped
<1>2. CASE Exit \/ Crash \/ DiskFills
  BY <1>2, EndTyped
<1>3. CASE UNCHANGED vars
  BY <1>3 DEF vars, counters, TypeInv, Calls
<1>4. ASSUME NEW a \in Agents, NEW t \in Types, NEW x \in Content, Remember(a, t, x)
      PROVE  TypeInv'
  BY <1>4, RememberTyped
<1>5. ASSUME NEW a \in Agents, NEW t \in Types, NEW x \in Content,
             NEW i \in Indices(files), Update(a, i, t, x)
      PROVE  TypeInv'
  <2>1. <<<<t, x>>>> \in Seq(Types \X Content) /\ <<<<t, x>>>> # <<>>
    OBVIOUS
  <2> QED BY <1>5, <2>1, FindTyped DEF Update
<1>6. ASSUME NEW a \in Agents, NEW i \in Indices(files), Delete(a, i)
      PROVE  TypeInv'
  BY <1>6, NothingTyped, FindTyped DEF Delete
<1>7. ASSUME NEW a \in Agents,
             \/ Edit(a) \/ ReadUnique(a) \/ Write(a) \/ WriteShort(a)
             \/ WriteFails(a) \/ Finish(a)
      PROVE  TypeInv'
  BY <1>7, EditTyped, ReadUniqueTyped, WritesTyped, WriteFailsTyped, FinishTyped
<1>8. CASE Observe \/ Consolidate
  BY <1>8, ObserveTyped, ConsolidateTyped
<1>9. ASSUME NEW ms \in Answers, Answer(ms) PROVE TypeInv'
  BY <1>9, AnswerTyped
<1>10. CASE AnswerFails
  BY <1>10, AnswerFailsTyped
<1> QED BY <1>1, <1>2, <1>3, <1>4, <1>5, <1>6, <1>7, <1>8, <1>9, <1>10 DEF Next, Rest

\* An index that a recall shows, whatever it leaves out, is the one under which delete
\* and update find that entry, however many entries, types and threads there are
\* (memory.c:426-491).
THEOREM IndexIsEntry == Spec => []RecallNamesEntries
<1>1. Init => TypeInv
  BY InitTyped
<1>2. TypeInv /\ [Next]_vars => TypeInv'
  BY NextTyped
<1>3. TypeInv => RecallNamesEntries
  <2> SUFFICES ASSUME TypeInv PROVE RecallNamesEntries
    OBVIOUS
  <2>1. files \in Files
    BY DEF TypeInv, Files, PlainSeq
  <2> QED BY <2>1, TypeInvImplies, RecallLocates DEF RecallNamesEntries
<1> QED BY <1>1, <1>2, <1>3, PTL DEF Spec
------------------------------------------------------------------------------
(***************************************************************************)
(* What a file holds after an entry has been added, replaced or taken out. *)
(***************************************************************************)
Ahead(es, k) == SubSeq(es, 1, k - 1)
Behind(es, k) == SubSeq(es, k + 1, Len(es))

\* The entries ahead of one and behind it.
LEMMA PartsTyped ==
  ASSUME NEW es \in Seq(Content), NEW k \in 1..Len(es)
  PROVE  Ahead(es, k) \in Seq(Content) /\ Behind(es, k) \in Seq(Content)
<1>1. Len(es) \in Nat /\ \A i \in 1..Len(es) : es[i] \in Content
  BY LenProperties, ElementOfSeq
<1>2. \A i \in 1..(k-1) : es[i] \in Content
  BY <1>1
<1>3. \A i \in (k+1)..Len(es) : es[i] \in Content
  BY <1>1
<1>4. Ahead(es, k) \in Seq(Content)
  BY <1>2, SubSeqProperties DEF Ahead
<1>5. Behind(es, k) \in Seq(Content)
  BY <1>1, <1>3, SubSeqProperties DEF Behind
<1> QED BY <1>4, <1>5

\* Where all entries but one are of one line, that one is read back as its lines and the
\* others as they are.
LEMMA ReadBackAround ==
  ASSUME NEW es \in Seq(Content), NEW p \in 1..Len(es),
         \A k \in 1..Len(es) : k # p => Plain(es[k])
  PROVE  ReadBack(es) = (Ahead(es, p) \o Lines[es[p]]) \o Behind(es, p)
<1> DEFINE n == Len(es)
           L == Lines[es[p]]
           W(i) == IF i < p THEN SubSeq(es, 1, i)
                   ELSE (Ahead(es, p) \o L) \o SubSeq(es, p + 1, i)
<1>1. n \in Nat /\ p \in 1..n /\ n # 0 /\ es # <<>>
  BY LenProperties, EmptySeq
<1>2. PICK g : /\ ReadBack(es) = g[n]
               /\ \A i \in 1..n :
                    g[i] = IF i = 1 THEN Lines[es[i]] ELSE g[i-1] \o Lines[es[i]]
  BY <1>1, ReadBackHow
<1>3. L \in Seq(Content) /\ Ahead(es, p) \in Seq(Content) /\ es[p] \in Content
  BY LinesPlain, PartsTyped, ElementOfSeq DEF PlainSeq
<1>4. Ahead(es, p) \o L \in Seq(Content)
  BY <1>3, ConcatProperties
<1>a. \A i : i < p => W(i) = SubSeq(es, 1, i)
  OBVIOUS
<1>b. \A i : ~ (i < p) => W(i) = (Ahead(es, p) \o L) \o SubSeq(es, p + 1, i)
  OBVIOUS
<1> HIDE DEF W
<1>5. ASSUME NEW i \in 1..n, i < p
      PROVE  W(i) = IF i = 1 THEN Lines[es[i]] ELSE W(i-1) \o Lines[es[i]]
  <2>1. Lines[es[i]] = <<es[i]>>
    <3>1. i # p
      BY <1>1, <1>5
    <3> QED BY <3>1 DEF Plain
  <2>2. SubSeq(es, 1, i) = SubSeq(es, 1, i - 1) \o <<es[i]>>
    <3>1. 1 \in 1..Len(es) /\ i \in 1..Len(es)
      BY <1>1
    <3> QED BY <3>1, SubSeqRecursiveSecond
  <2>3. W(i) = SubSeq(es, 1, i) /\ (i # 1 => W(i-1) = SubSeq(es, 1, i - 1))
    <3>1. i - 1 < p
      BY <1>1, <1>5
    <3> QED BY <1>5, <1>a, <3>1, Zenon
  <2>4. CASE i = 1
    <3>1. SubSeq(es, 1, i - 1) = <<>>
      BY <2>4, SubSeqEmpty
    <3>2. <<>> \o <<es[i]>> = <<es[i]>>
      OBVIOUS
    <3> QED BY <2>1, <2>2, <2>3, <2>4, <3>1, <3>2
  <2>5. CASE i # 1
    BY <2>1, <2>2, <2>3, <2>5
  <2> QED BY <2>4, <2>5
<1>6. W(p) = Ahead(es, p) \o L
  <2>1. SubSeq(es, p + 1, p) = <<>>
    BY SubSeqEmpty
  <2>2. W(p) = (Ahead(es, p) \o L) \o <<>>
    <3>1. ~ (p < p)
      BY <1>1
    <3> QED BY <1>b, <2>1, <3>1
  <2> HIDE DEF L
  <2> QED BY <1>4, <2>2, ConcatEmptySeq
<1>7. W(p) = IF p = 1 THEN Lines[es[p]] ELSE W(p-1) \o Lines[es[p]]
  <2>1. CASE p = 1
    <3>1. Ahead(es, p) = <<>>
      BY <2>1, SubSeqEmpty DEF Ahead
    <3>2. <<>> \o L = L
      <4> HIDE DEF L
      <4> QED BY <1>3, ConcatEmptySeq
    <3> QED BY <1>6, <2>1, <3>1, <3>2
  <2>2. CASE p # 1
    <3>1. W(p-1) = Ahead(es, p)
      <4>1. p - 1 < p
        BY <1>1
      <4> QED BY <1>a, <4>1, Zenon DEF Ahead
    <3> QED BY <1>6, <2>2, <3>1
  <2> QED BY <2>1, <2>2
<1>8. ASSUME NEW i \in 1..n, i > p
      PROVE  W(i) = IF i = 1 THEN Lines[es[i]] ELSE W(i-1) \o Lines[es[i]]
  <2> DEFINE fl == Ahead(es, p) \o L
  <2>1. Lines[es[i]] = <<es[i]>> /\ i # 1 /\ es[i] \in Content
    <3>1. i # p /\ i # 1
      BY <1>1, <1>8
    <3> QED BY <3>1, ElementOfSeq DEF Plain
  <2>2. SubSeq(es, p + 1, i) = SubSeq(es, p + 1, i - 1) \o <<es[i]>>
    <3>1. p + 1 \in 1..Len(es) /\ i \in (p + 1)..Len(es)
      BY <1>1, <1>8
    <3> QED BY <3>1, SubSeqRecursiveSecond
  <2>3. W(i) = fl \o SubSeq(es, p + 1, i) /\ W(i-1) = fl \o SubSeq(es, p + 1, i - 1)
    <3>1. ~ (i < p) /\ ~ (i - 1 < p)
      BY <1>1, <1>8
    <3> QED BY <1>b, <3>1, Zenon
  <2>4. SubSeq(es, p + 1, i - 1) \in Seq(Content)
    <3>1. \A j \in (p+1)..(i-1) : j \in 1..Len(es)
      BY <1>1, <1>8
    <3>2. \A j \in (p+1)..(i-1) : es[j] \in Content
      BY <3>1, ElementOfSeq
    <3> QED BY <1>1, <1>8, <3>2, SubSeqProperties
  <2>5. fl \in Seq(Content) /\ <<es[i]>> \in Seq(Content)
    BY <1>4, <2>1
  <2> HIDE DEF fl
  <2>6. (fl \o SubSeq(es, p + 1, i - 1)) \o <<es[i]>> = fl \o (SubSeq(es, p + 1, i - 1) \o <<es[i]>>)
    <3>1. \A a, b, c \in Seq(Content) : (a \o b) \o c = a \o (b \o c)
      BY ConcatAssociative
    <3> QED BY <2>4, <2>5, <3>1, Zenon
  <2> QED BY <2>1, <2>2, <2>3, <2>6
<1>9. \A i \in 1..n : W(i) = IF i = 1 THEN Lines[es[i]] ELSE W(i-1) \o Lines[es[i]]
  <2> SUFFICES ASSUME NEW i \in 1..n
               PROVE  W(i) = IF i = 1 THEN Lines[es[i]] ELSE W(i-1) \o Lines[es[i]]
    OBVIOUS
  <2>1. i < p \/ i = p \/ i > p
    BY <1>1
  <2> QED BY <1>5, <1>7, <1>8, <2>1
<1>10. W(n) = (Ahead(es, p) \o L) \o Behind(es, p)
  <2>1. ~ (n < p)
    BY <1>1
  <2> QED BY <1>b, <2>1, Zenon DEF Behind
<1> HIDE DEF L, n
<1>11. g[n] = W(n)
  <2> DEFINE Bad == {i \in Nat : i \in 1..n /\ g[i] # W(i)}
  <2> SUFFICES ASSUME n \in Bad PROVE FALSE
    BY <1>1
  <2>1. PICK i \in Bad : \A j \in Bad : i <= j
    BY LeastOf
  <2>2. i \in 1..n /\ g[i] # W(i)
    OBVIOUS
  <2>3. i # 1
    BY <1>2, <1>9, <2>2
  <2>4. i - 1 \in 1..n /\ ~ (i <= i - 1) /\ i - 1 \in Nat
    BY <1>1, <2>2, <2>3
  <2>5. g[i-1] = W(i-1)
    BY <2>1, <2>4
  <2> QED BY <1>2, <1>9, <2>2, <2>3, <2>5
<1> QED BY <1>2, <1>10, <1>11 DEF L

\* One-line entries are read back as they were written.
LEMMA PlainReadsBack ==
  ASSUME NEW es \in PlainSeq
  PROVE  ReadBack(es) = es
<1>1. es \in Seq(Content) /\ Len(es) \in Nat /\ DOMAIN es = 1..Len(es)
  BY LenProperties DEF PlainSeq
<1>2. CASE es = <<>>
  BY <1>1, <1>2, ReadBackHow
<1>3. CASE es # <<>>
  <2>1. 1 \in 1..Len(es) /\ Len(es) \in 1..Len(es)
    BY <1>1, <1>3, EmptySeq
  <2>2. ReadBack(es) = (Ahead(es, 1) \o Lines[es[1]]) \o Behind(es, 1)
    BY <1>1, <2>1, ReadBackAround DEF PlainSeq
  <2>3. Ahead(es, 1) = <<>>
    BY SubSeqEmpty DEF Ahead
  <2>4. Lines[es[1]] = <<es[1]>>
    BY <1>1, <2>1 DEF PlainSeq, Plain
  <2>5. <<>> \o <<es[1]>> = <<es[1]>>
    OBVIOUS
  <2>6. SubSeq(es, 1, Len(es)) = <<es[1]>> \o SubSeq(es, 1 + 1, Len(es))
    BY <1>1, <2>1, SubSeqRecursiveFirst
  <2>7. SubSeq(es, 1, Len(es)) = es
    BY <1>1, SubSeqFull
  <2> QED BY <2>2, <2>3, <2>4, <2>5, <2>6, <2>7 DEF Behind
<1> QED BY <1>2, <1>3

\* A new entry is read back behind those that were there.
LEMMA AppendReadsBack ==
  ASSUME NEW es \in PlainSeq, NEW x \in Content
  PROVE  ReadBack(Append(es, x)) = es \o Lines[x]
<1> DEFINE a == Append(es, x)
           n == Len(es)
<1>1. es \in Seq(Content) /\ n \in Nat /\ DOMAIN es = 1..n
  BY LenProperties DEF PlainSeq
<1>2. /\ a \in Seq(Content) /\ Len(a) = n + 1 /\ a[n+1] = x
      /\ \A i \in 1..n : a[i] = es[i]
  BY <1>1, AppendProperties
<1>3. \A k \in 1..Len(a) : k # n + 1 => Plain(a[k])
  <2> SUFFICES ASSUME NEW k \in 1..(n + 1), k # n + 1 PROVE Plain(a[k])
    BY <1>2
  <2>1. k \in 1..n
    BY <1>1
  <2> QED BY <1>1, <1>2, <2>1 DEF PlainSeq
<1>4. n + 1 \in 1..Len(a)
  BY <1>1, <1>2
<1> HIDE DEF a
<1>5. ReadBack(a) = (Ahead(a, n + 1) \o Lines[a[n + 1]]) \o Behind(a, n + 1)
  BY <1>2, <1>3, <1>4, ReadBackAround
<1>6. Behind(a, n + 1) = <<>>
  BY <1>1, <1>2, SubSeqEmpty DEF Behind
<1>7. Ahead(a, n + 1) = es
  <2>1. Ahead(a, n + 1) = SubSeq(a, 1, n)
    BY <1>1 DEF Ahead
  <2>2. \A i \in 1..n : a[i] \in Content
    BY <1>1, <1>2, ElementOfSeq
  <2>3. /\ SubSeq(a, 1, n) \in Seq(Content) /\ Len(SubSeq(a, 1, n)) = n
        /\ \A i \in 1..n : SubSeq(a, 1, n)[i] = es[i]
    <3>1. /\ SubSeq(a, 1, n) \in Seq(Content)
          /\ Len(SubSeq(a, 1, n)) = IF 1 <= n THEN n - 1 + 1 ELSE 0
          /\ \A i \in 1..(n - 1 + 1) : SubSeq(a, 1, n)[i] = a[1 + i - 1]
      BY <1>1, <2>2, SubSeqProperties
    <3> QED BY <1>1, <1>2, <3>1
  <2> QED BY <1>1, <2>1, <2>3, SeqEqual
<1>8. es \o Lines[x] \in Seq(Content)
  BY <1>1, LinesPlain, ConcatProperties DEF PlainSeq
<1> QED BY <1>2, <1>5, <1>6, <1>7, <1>8, ConcatEmptySeq DEF a

\* The length of what is behind the k-th of n entries.
LEMMA Span ==
  \A n \in Nat : \A k \in 1..n : (IF k + 1 <= n THEN n - (k + 1) + 1 ELSE 0) = n - k
  OBVIOUS

\* A file without one of its entries has one-line entries.
LEMMA PartsPlain ==
  ASSUME NEW es \in PlainSeq, NEW k \in 1..Len(es)
  PROVE  Without(es, k) \in PlainSeq
<1>1. es \in Seq(Content) /\ Len(es) \in Nat /\ DOMAIN es = 1..Len(es)
  BY LenProperties DEF PlainSeq
<1>2. Ahead(es, k) \in PlainSeq
  <2>1. k - 1 \in Nat /\ k - 1 <= Len(es)
    BY <1>1
  <2> QED BY <2>1, PartPlain DEF Ahead
<1>3. Behind(es, k) \in PlainSeq
  <2> DEFINE b == SubSeq(es, k + 1, Len(es))
  <2>1. \A i \in (k+1)..Len(es) : es[i] \in Content
    BY <1>1, ElementOfSeq
  <2>2. /\ b \in Seq(Content)
        /\ Len(b) = IF k + 1 <= Len(es) THEN Len(es) - (k + 1) + 1 ELSE 0
        /\ \A i \in 1..(Len(es) - (k + 1) + 1) : b[i] = es[k + 1 + i - 1]
    BY <1>1, <2>1, SubSeqProperties
  <2> HIDE DEF b
  <2>3. Len(b) = Len(es) - k /\ DOMAIN b = 1..(Len(es) - k)
    <3>1. DOMAIN b = 1..Len(b)
      BY <2>2, LenProperties
    <3>2. k \in Int /\ k <= Len(es)
      BY <1>1
    <3>3. Len(b) = Len(es) - k
      <4>1. (IF k + 1 <= Len(es) THEN Len(es) - (k + 1) + 1 ELSE 0) = Len(es) - k
        BY <1>1, Span
      <4>2. Len(b) = IF k + 1 <= Len(es) THEN Len(es) - (k + 1) + 1 ELSE 0
        BY <2>2
      <4> QED BY <4>1, <4>2
    <3> QED BY <3>1, <3>3
  <2>4. ASSUME NEW i \in 1..(Len(es) - k) PROVE Plain(b[i])
    <3>1. b[i] = es[k + i] /\ k + i \in DOMAIN es
      <4>1. /\ i \in 1..(Len(es) - (k + 1) + 1) /\ k + 1 + i - 1 = k + i
            /\ k + i \in 1..Len(es)
        BY <1>1
      <4> QED BY <1>1, <2>2, <4>1
    <3> QED BY <3>1 DEF PlainSeq
  <2> QED BY <2>2, <2>3, <2>4 DEF PlainSeq, Behind, b
<1> QED BY <1>2, <1>3, ConcatPlain DEF Without, RemoveAt, Ahead, Behind

\* A replaced entry is read back between those around it.
LEMMA ReplaceReadsBack ==
  ASSUME NEW es \in PlainSeq, NEW k \in 1..Len(es), NEW x \in Content
  PROVE  ReadBack(ReplaceAt(es, k, x)) = (Ahead(es, k) \o Lines[x]) \o Behind(es, k)
<1> DEFINE r == ReplaceAt(es, k, x)
<1>1. es \in Seq(Content) /\ Len(es) \in Nat /\ DOMAIN es = 1..Len(es)
  BY LenProperties DEF PlainSeq
<1>2. /\ r \in Seq(Content) /\ Len(r) = Len(es)
      /\ \A j \in 1..Len(es) : r[j] = IF j = k THEN x ELSE es[j]
  BY <1>1, ExceptSeq DEF ReplaceAt
<1> HIDE DEF r
<1>3. \A j \in 1..Len(r) : j # k => Plain(r[j])
  BY <1>1, <1>2 DEF PlainSeq
<1>4. ReadBack(r) = (Ahead(r, k) \o Lines[r[k]]) \o Behind(r, k)
  BY <1>2, <1>3, ReadBackAround
<1>5. r[k] = x
  BY <1>2
<1>6. Ahead(r, k) = Ahead(es, k)
  <2>1. \A i \in 1..(k-1) : i \in 1..Len(es) /\ i # k
    BY <1>1
  <2>2. \A i \in 1..(k-1) : r[i] = es[i] /\ es[i] \in Content /\ r[i] \in Content
    BY <1>1, <1>2, <2>1, ElementOfSeq
  <2>3. /\ SubSeq(es, 1, k-1) \in Seq(Content)
        /\ Len(SubSeq(es, 1, k-1)) = IF 1 <= k-1 THEN (k-1)-1+1 ELSE 0
        /\ \A i \in 1..((k-1)-1+1) : SubSeq(es, 1, k-1)[i] = es[1+i-1]
    BY <2>2, SubSeqProperties
  <2>4. /\ SubSeq(r, 1, k-1) \in Seq(Content)
        /\ Len(SubSeq(r, 1, k-1)) = IF 1 <= k-1 THEN (k-1)-1+1 ELSE 0
        /\ \A i \in 1..((k-1)-1+1) : SubSeq(r, 1, k-1)[i] = r[1+i-1]
    BY <2>2, SubSeqProperties
  <2>5. Len(SubSeq(es, 1, k-1)) = k-1 /\ \A i \in 1..(k-1) : SubSeq(r, 1, k-1)[i] = SubSeq(es, 1, k-1)[i]
    BY <2>2, <2>3, <2>4
  <2> QED BY <2>3, <2>4, <2>5, SeqEqual DEF Ahead
<1>7. Behind(r, k) = Behind(es, k)
  <2> DEFINE n == Len(es)
  <2>1. \A i \in (k+1)..n : i \in 1..n /\ i # k
    BY <1>1
  <2>2. \A i \in (k+1)..n : r[i] = es[i] /\ es[i] \in Content /\ r[i] \in Content
    BY <1>1, <1>2, <2>1, ElementOfSeq
  <2>3. /\ SubSeq(es, k+1, n) \in Seq(Content)
        /\ Len(SubSeq(es, k+1, n)) = IF k+1 <= n THEN n-(k+1)+1 ELSE 0
        /\ \A i \in 1..(n-(k+1)+1) : SubSeq(es, k+1, n)[i] = es[k+1+i-1]
    BY <1>1, <2>2, SubSeqProperties
  <2>4. /\ SubSeq(r, k+1, n) \in Seq(Content)
        /\ Len(SubSeq(r, k+1, n)) = IF k+1 <= n THEN n-(k+1)+1 ELSE 0
        /\ \A i \in 1..(n-(k+1)+1) : SubSeq(r, k+1, n)[i] = r[k+1+i-1]
    BY <1>1, <2>2, SubSeqProperties
  <2>5. Len(SubSeq(es, k+1, n)) = n-k /\ \A i \in 1..(n-k) : SubSeq(r, k+1, n)[i] = SubSeq(es, k+1, n)[i]
    <3>1. \A i \in 1..(n-k) : k+i \in (k+1)..n /\ k+1+i-1 = k+i /\ i \in 1..(n-(k+1)+1)
      BY <1>1
    <3>2. ASSUME NEW i \in 1..(n-k)
          PROVE  SubSeq(r, k+1, n)[i] = SubSeq(es, k+1, n)[i]
      <4>1. SubSeq(r, k+1, n)[i] = r[k+i] /\ SubSeq(es, k+1, n)[i] = es[k+i]
        BY <2>3, <2>4, <3>1
      <4> QED BY <2>2, <3>1, <4>1
    <3>3. Len(SubSeq(es, k+1, n)) = n-k
      <4> DEFINE b == SubSeq(es, k+1, n)
      <4>1. (IF k+1 <= n THEN n-(k+1)+1 ELSE 0) = n-k
        BY <1>1, Span
      <4>2. Len(b) = IF k+1 <= n THEN n-(k+1)+1 ELSE 0
        BY <2>3
      <4> HIDE DEF b
      <4>3. Len(b) = n-k
        BY <4>1, <4>2
      <4> QED BY <4>3 DEF b
    <3> QED BY <3>2, <3>3
  <2> HIDE DEF n
  <2>6. SubSeq(r, k+1, n) = SubSeq(es, k+1, n)
    BY <2>3, <2>4, <2>5, SeqEqual
  <2> QED BY <1>2, <2>6 DEF Behind, n
<1> QED BY <1>4, <1>5, <1>6, <1>7 DEF r
------------------------------------------------------------------------------
(***************************************************************************)
(* Counting copies.                                                        *)
(***************************************************************************)
Places(s, e) == {k \in DOMAIN s : s[k] = e}

\* Copies counts the places of an entry, of which there are finitely many.
LEMMA PlacesFinite ==
  ASSUME NEW s \in Seq(Content), NEW e
  PROVE  /\ IsFiniteSet(Places(s, e)) /\ Copies(s, e) = Cardinality(Places(s, e))
         /\ Copies(s, e) \in Nat
<1>1. Len(s) \in Nat /\ DOMAIN s = 1..Len(s)
  BY LenProperties
<1>2. IsFiniteSet(1..Len(s)) /\ Places(s, e) \in SUBSET (1..Len(s))
  BY <1>1, FS_Interval DEF Places
<1>3. IsFiniteSet(Places(s, e))
  BY <1>2, FS_Subset
<1>4. Copies(s, e) = Cardinality(Places(s, e))
  BY DEF Copies, Places
<1> QED BY <1>3, <1>4, FS_CardinalityType

\* The copies in two sequences put together, in one entry, and in a part.
LEMMA CopiesAdd ==
  ASSUME NEW s \in Seq(Content), NEW u \in Seq(Content), NEW e
  PROVE  Copies(s \o u, e) = Copies(s, e) + Copies(u, e)
<1> DEFINE n == Len(s)
           P == Places(s, e)
           Q == Places(u, e)
           R == {k \in (n + 1)..(n + Len(u)) : u[k - n] = e}
           h == [k \in Q |-> k + n]
<1>1. /\ n \in Nat /\ DOMAIN s = 1..n /\ Len(u) \in Nat /\ DOMAIN u = 1..Len(u)
      /\ s \o u \in Seq(Content) /\ Len(s \o u) = n + Len(u)
      /\ \A i \in 1..(n + Len(u)) : (s \o u)[i] = IF i <= n THEN s[i] ELSE u[i - n]
  BY LenProperties, ConcatProperties
<1>2. DOMAIN (s \o u) = 1..(n + Len(u))
  BY <1>1, LenProperties
<1>3. Places(s \o u, e) = P \cup R
  <2>1. ASSUME NEW k PROVE k \in Places(s \o u, e) <=> k \in P \cup R
    <3>1. CASE k \in 1..n
      BY <1>1, <1>2, <3>1 DEF Places
    <3>2. CASE k \in (n + 1)..(n + Len(u))
      BY <1>1, <1>2, <3>2 DEF Places
    <3>3. CASE k \notin 1..n /\ k \notin (n + 1)..(n + Len(u))
      BY <1>1, <1>2, <3>3 DEF Places
    <3> QED BY <3>1, <3>2, <3>3
  <2> QED BY <2>1
<1>4. P \cap R = {}
  BY <1>1 DEF Places
<1>5. h \in Bijection(Q, R)
  <2>1. h \in [Q -> R]
    BY <1>1 DEF Places
  <2>2. \A a, b \in Q : h[a] = h[b] => a = b
    BY <1>1 DEF Places
  <2>3. \A r \in R : \E a \in Q : h[a] = r
    <3> SUFFICES ASSUME NEW r \in R PROVE \E a \in Q : h[a] = r
      OBVIOUS
    <3>1. r - n \in Q /\ (r - n) + n = r
      BY <1>1 DEF Places
    <3> QED BY <3>1
  <2> HIDE DEF h, R, Q
  <2> QED BY <2>1, <2>2, <2>3 DEF Bijection, Injection, Surjection, IsInjective
<1> HIDE DEF h, R, P, Q
<1>6. IsFiniteSet(P) /\ IsFiniteSet(Q)
  BY PlacesFinite DEF P, Q
<1>7. IsFiniteSet(R) /\ Cardinality(R) = Cardinality(Q)
  <2>1. ExistsBijection(Q, R)
    BY <1>5 DEF ExistsBijection
  <2> QED BY <1>6, <2>1, FS_Bijection
<1>8. Cardinality(P \cup R) = Cardinality(P) + Cardinality(R) - Cardinality(P \cap R)
  BY <1>6, <1>7, FS_Union
<1>9. Cardinality(P) \in Nat /\ Cardinality(R) \in Nat /\ Cardinality({}) = 0
  BY <1>6, <1>7, FS_CardinalityType, FS_EmptySet
<1>10. Cardinality(P \cup R) = Cardinality(P) + Cardinality(Q)
  <2>1. Cardinality(P \cap R) = 0
    BY <1>4, <1>9
  <2> QED BY <1>7, <1>8, <1>9, <2>1
<1>11. Copies(s \o u, e) = Cardinality(P \cup R)
  BY <1>1, <1>3, PlacesFinite
<1>12. Copies(s, e) = Cardinality(P) /\ Copies(u, e) = Cardinality(Q)
  BY PlacesFinite DEF P, Q
<1> QED BY <1>10, <1>11, <1>12

LEMMA CopiesOfOne ==
  ASSUME NEW x \in Content, NEW e
  PROVE  Copies(<<x>>, e) = IF x = e THEN 1 ELSE 0
<1>1. CASE x = e
  <2>1. {k \in DOMAIN <<x>> : <<x>>[k] = e} = {1}
    BY <1>1
  <2> QED BY <1>1, <2>1, FS_Singleton DEF Copies
<1>2. CASE x # e
  <2>1. {k \in DOMAIN <<x>> : <<x>>[k] = e} = {}
    BY <1>2
  <2> QED BY <1>2, <2>1, FS_EmptySet DEF Copies
<1> QED BY <1>1, <1>2

\* The copies in front of an entry, that entry, and those behind it.
LEMMA CopiesAround ==
  ASSUME NEW es \in Seq(Content), NEW k \in 1..Len(es), NEW e
  PROVE  /\ Copies(Ahead(es, k), e) \in Nat /\ Copies(Behind(es, k), e) \in Nat
         /\ Copies(es, e) = Copies(Ahead(es, k), e) + (IF es[k] = e THEN 1 ELSE 0)
                              + Copies(Behind(es, k), e)
<1> DEFINE a == Ahead(es, k)
           b == Behind(es, k)
<1>1. a \in Seq(Content) /\ b \in Seq(Content) /\ es[k] \in Content /\ Len(es) \in Nat
  BY PartsTyped, ElementOfSeq, LenProperties
<1>2. <<es[k]>> \in Seq(Content)
  BY <1>1
<1>3. es = (a \o <<es[k]>>) \o b
  <2>1. SubSeq(es, 1, k) = SubSeq(es, 1, k - 1) \o <<es[k]>>
    <3>1. 1 \in 1..Len(es) /\ k \in 1..Len(es)
      BY <1>1
    <3> QED BY <3>1, SubSeqRecursiveSecond
  <2>2. SubSeq(es, 1, k) \o SubSeq(es, k + 1, Len(es)) = SubSeq(es, 1, Len(es))
    <3>1. 1 \in 1..(Len(es) + 1) /\ k \in (1 - 1)..Len(es) /\ Len(es) \in k..Len(es)
      BY <1>1
    <3> QED BY <3>1, ConcatAdjacentSubSeq
  <2>3. SubSeq(es, 1, Len(es)) = es
    BY SubSeqFull
  <2> QED BY <2>1, <2>2, <2>3 DEF Ahead, Behind
<1> HIDE DEF a, b
<1>4. a \o <<es[k]>> \in Seq(Content)
  BY <1>1, <1>2, ConcatProperties
<1>5. /\ Copies(a \o <<es[k]>>, e) = Copies(a, e) + Copies(<<es[k]>>, e)
      /\ Copies((a \o <<es[k]>>) \o b, e) = Copies(a \o <<es[k]>>, e) + Copies(b, e)
  <2>1. \A s, u \in Seq(Content) : Copies(s \o u, e) = Copies(s, e) + Copies(u, e)
    BY CopiesAdd
  <2> QED BY <1>1, <1>2, <1>4, <2>1, Zenon
<1>6. Copies(a, e) \in Nat /\ Copies(b, e) \in Nat
  BY <1>1, PlacesFinite
<1>7. Copies(<<es[k]>>, e) = IF es[k] = e THEN 1 ELSE 0
  BY <1>1, CopiesOfOne
<1>8. Copies(es, e) = Copies(a, e) + (IF es[k] = e THEN 1 ELSE 0) + Copies(b, e)
  BY <1>3, <1>5, <1>6, <1>7
<1> QED BY <1>6, <1>8 DEF a, b

LEMMA CopiesOfPart ==
  ASSUME NEW es \in Seq(Content), NEW n \in Nat, n <= Len(es), NEW e
  PROVE  Copies(SubSeq(es, 1, n), e) <= Copies(es, e)
<1>1. Len(es) \in Nat /\ \A i \in 1..Len(es) : es[i] \in Content
  BY LenProperties, ElementOfSeq
<1>2. SubSeq(es, 1, n) \o SubSeq(es, n + 1, Len(es)) = es
  <2>1. 1 \in 1..(Len(es) + 1) /\ n \in (1 - 1)..Len(es) /\ Len(es) \in n..Len(es)
    BY <1>1
  <2>2. SubSeq(es, 1, n) \o SubSeq(es, n + 1, Len(es)) = SubSeq(es, 1, Len(es))
    BY <2>1, ConcatAdjacentSubSeq
  <2> QED BY <2>2, SubSeqFull
<1>3. SubSeq(es, 1, n) \in Seq(Content)
  <2>1. \A i \in 1..n : es[i] \in Content
    BY <1>1
  <2> QED BY <2>1, SubSeqProperties
<1>4. SubSeq(es, n + 1, Len(es)) \in Seq(Content)
  <2>1. \A i \in (n + 1)..Len(es) : es[i] \in Content
    BY <1>1
  <2> QED BY <1>1, <2>1, SubSeqProperties
<1>5. Copies(es, e) = Copies(SubSeq(es, 1, n), e) + Copies(SubSeq(es, n + 1, Len(es)), e)
  <2>1. \A s, u \in Seq(Content) : Copies(s \o u, e) = Copies(s, e) + Copies(u, e)
    BY CopiesAdd
  <2>2. Copies(SubSeq(es, 1, n) \o SubSeq(es, n + 1, Len(es)), e)
          = Copies(SubSeq(es, 1, n), e) + Copies(SubSeq(es, n + 1, Len(es)), e)
    BY <1>3, <1>4, <2>1, Zenon
  <2> QED BY <1>2, <2>2
<1>6. Copies(SubSeq(es, 1, n), e) \in Nat /\ Copies(SubSeq(es, n + 1, Len(es)), e) \in Nat
  BY <1>3, <1>4, PlacesFinite
<1> QED BY <1>5, <1>6

\* What is not present has no copies.
LEMMA NoCopies ==
  ASSUME NEW es, NEW x, ~ Present(es, x)
  PROVE  Copies(es, x) = 0
<1>1. {k \in DOMAIN es : es[k] = x} = {}
  BY DEF Present
<1> QED BY <1>1, FS_EmptySet DEF Copies
------------------------------------------------------------------------------
(***************************************************************************)
(* One agent alone.  Nobody writes between its read of a file and its      *)
(* write, so the copy it is about to write differs from the file by one    *)
(* entry, unless the read failed.                                          *)
(***************************************************************************)
\* The copy that a call works on, by where the call is.
CopyOf(c) ==
  LET es == files[c.type] IN
  /\ c.at = "located" /\ ~c.blind =>
       c.pos \in 1..Len(es) /\ c.named = <<c.type, es[c.pos]>>
  /\ c.at = "rewrite" /\ ~c.blind =>
       \E k \in 1..Len(es) :
         /\ c.named = <<c.type, es[k]>>
         /\ \/ c.buf = Without(es, k)
            \/ \E x \in Content : c.buf = ReplaceAt(es, k, x)
  /\ c.at = "append" =>
       \/ c.blind /\ \E x \in Content : c.buf = <<x>>
       \/ \E x \in Content : ~Present(es, x) /\ c.buf = Append(es, x)

AloneInv ==
  /\ TypeInv
  /\ CopyOf(call[Main])

\* With one agent, a step of an agent is a step of the main one.
LEMMA MainOnly ==
  ASSUME Agents = {Main}, NEW a \in Agents
  PROVE  a = Main
  OBVIOUS

\* At first there is no call.
LEMMA AloneInit == Init => AloneInv
<1> SUFFICES ASSUME Init PROVE AloneInv
  OBVIOUS
<1>1. call[Main] = NoCall
  BY MemoryAssumption DEF Init, MemoryAssumption
<1> QED BY <1>1, InitTyped DEF AloneInv, CopyOf, NoCall

\* A call that goes on to where it has no copy.
LEMMA NoCopy ==
  ASSUME NEW c, c.at \notin {"located", "rewrite", "append"}
  PROVE  CopyOf(c)'
  BY DEF CopyOf

\* A call that does not move, in files that do not change, keeps its copy.
LEMMA SameCopy ==
  ASSUME CopyOf(call[Main]), files' = files, call' = call
  PROVE  CopyOf(call[Main])'
  BY DEF CopyOf

\* The call of the main agent, once it has gone on.
LEMMA MainGoes ==
  ASSUME TypeInv, NEW c, call' = [call EXCEPT ![Main] = c]
  PROVE  call'[Main] = c
  BY MemoryAssumption DEF MemoryAssumption, TypeInv, Calls

\* Each step of the only agent leaves it with a copy of what the files hold.
LEMMA AloneFind ==
  ASSUME AloneInv, NEW i \in Indices(files), NEW op \in {"delete", "update"}, NEW new,
         Find(Main, i, op, new)
  PROVE  CopyOf(call[Main])'
<1>0. PICK U \in Unreadable :
        Begin(Main, [NoCall EXCEPT !.op = op, !.at = "located", !.todo = new,
                       !.type = Locate(Read(files, U), i).type,
                       !.pos = Locate(Read(files, U), i).pos, !.named = Named(files, i),
                       !.blind = U # {}])
  BY DEF Find
<1> DEFINE loc == Locate(Read(files, U), i)
           was == Locate(files, i)
           c   == [NoCall EXCEPT !.op = op, !.at = "located", !.todo = new,
                     !.type = loc.type, !.pos = loc.pos, !.named = Named(files, i),
                     !.blind = U # {}]
<1>1. files \in Files
  BY DEF AloneInv, TypeInv, Files, PlainSeq
<1>2. /\ was.type \in Types /\ was.pos \in 1..Len(files[was.type])
      /\ Named(files, i) = <<was.type, files[was.type][was.pos]>>
  BY <1>1, IndexNames
<1>3. call' = [call EXCEPT ![Main] = c] /\ files' = files
  BY <1>0 DEF Begin
<1>a. U = {} => loc = was
  <2>1. files = [t \in Types |-> files[t]]
    BY <1>1 DEF Files
  <2>2. U = {} => Read(files, U) = files
    BY <2>1 DEF Read
  <2> QED BY <2>2
<1> HIDE DEF loc, was
<1>4. /\ c.at = "located" /\ c.type = loc.type /\ c.pos = loc.pos
      /\ c.named = Named(files, i) /\ c.blind = (U # {})
  BY DEF NoCall
<1> HIDE DEF c
<1>5. call'[Main] = c
  BY <1>3, MainGoes DEF AloneInv
<1> QED BY <1>2, <1>3, <1>4, <1>5, <1>a DEF CopyOf

LEMMA AloneEdit ==
  ASSUME AloneInv, Edit(Main)
  PROVE  AloneInv'
<1> DEFINE c  == call[Main]
           es == files[c.type]
<1>0. TypeInv' /\ Main \in Agents
  BY MemoryAssumption, EditTyped DEF AloneInv, MemoryAssumption
<1>1. /\ c \in CallType /\ c.at = "located"
      /\ ~c.blind => c.pos \in 1..Len(es) /\ c.named = <<c.type, es[c.pos]>>
      /\ c.op \in {"delete", "update"} /\ (c.op = "update" => c.todo # <<>>)
      /\ c.todo \in Seq(Types \X Content)
  BY <1>0 DEF Edit, AloneInv, CopyOf, TypeInv, Calls, Stage, CallType
<1>2. files' = files
  BY DEF Edit, Go
<1> DEFINE r == [c EXCEPT !.at = "rewrite", !.todo = <<>>,
                   !.buf = ReplaceAt(es, c.pos, c.todo[1][2])]
           w == [c EXCEPT !.at = "rewrite", !.buf = Without(es, c.pos)]
<1>3. \/ Go(Main, NoCall)
      \/ c.op = "update" /\ Go(Main, r)
      \/ Go(Main, w)
  BY DEF Edit
<1>4. CASE Go(Main, NoCall)
  <2>1. call'[Main] = NoCall
    BY <1>4, MainGoes DEF Go, AloneInv
  <2> QED BY <1>0, <2>1, NoCopy DEF AloneInv, NoCall, CopyOf
<1>5. CASE c.op = "update" /\ Go(Main, r)
  <2>1. c.todo[1][2] \in Content
    <3>1. 1 \in 1..Len(c.todo)
      BY <1>1, <1>5, EmptySeq, LenProperties
    <3> QED BY <1>1, <3>1, ElementOfSeq
  <2>2. /\ r.at = "rewrite" /\ r.type = c.type /\ r.named = c.named /\ r.blind = c.blind
        /\ r.buf = ReplaceAt(es, c.pos, c.todo[1][2])
    BY <1>1 DEF CallType
  <2> HIDE DEF r
  <2>3. call'[Main] = r
    BY <1>5, MainGoes DEF Go, AloneInv
  <2> QED BY <1>0, <1>1, <1>2, <2>1, <2>2, <2>3 DEF AloneInv, CopyOf
<1>6. CASE Go(Main, w)
  <2>2. /\ w.at = "rewrite" /\ w.type = c.type /\ w.named = c.named /\ w.blind = c.blind
        /\ w.buf = Without(es, c.pos)
    BY <1>1 DEF CallType
  <2> HIDE DEF w
  <2>3. call'[Main] = w
    BY <1>6, MainGoes DEF Go, AloneInv
  <2> QED BY <1>0, <1>1, <1>2, <2>2, <2>3 DEF AloneInv, CopyOf
<1> QED BY <1>3, <1>4, <1>5, <1>6

LEMMA AloneReadUnique ==
  ASSUME AloneInv, ReadUnique(Main)
  PROVE  AloneInv'
<1> DEFINE c == call[Main]
           t == c.todo[1][1]
           x == c.todo[1][2]
           d == [c EXCEPT !.todo = Tail(@)]
           e == [c EXCEPT !.todo = Tail(@), !.at = "append", !.type = t,
                   !.buf = Append(files[t], x)]
           b == [c EXCEPT !.todo = Tail(@), !.at = "append", !.type = t,
                   !.buf = <<x>>, !.blind = TRUE]
<1>0. TypeInv' /\ Main \in Agents
  BY MemoryAssumption, ReadUniqueTyped DEF AloneInv, MemoryAssumption
<1>1. /\ c \in CallType /\ c.at = "unique"
      /\ c.todo \in Seq(Types \X Content) /\ c.todo # <<>>
  BY <1>0 DEF ReadUnique, AloneInv, TypeInv, Calls, CallType
<1>2. x \in Content
  <2>1. 1 \in 1..Len(c.todo)
    BY <1>1, EmptySeq, LenProperties
  <2> QED BY <1>1, <2>1, ElementOfSeq
<1>3. \/ Present(files[t], x) /\ Go(Main, d)
      \/ ~Present(files[t], x) /\ Go(Main, e)
      \/ Go(Main, b)
  BY DEF ReadUnique
<1>4. files' = files
  BY <1>3 DEF Go
<1>5. d.at = "unique"
  BY <1>1 DEF CallType
<1>6. e.at = "append" /\ e.type = t /\ e.buf = Append(files[t], x)
  BY <1>1 DEF CallType
<1>b. b.at = "append" /\ b.blind /\ b.buf = <<x>>
  BY <1>1 DEF CallType
<1> HIDE DEF d, e, b
<1>7. CASE Go(Main, d)
  <2>1. call'[Main] = d
    BY <1>7, MainGoes DEF Go, AloneInv
  <2> QED BY <1>0, <1>1, <1>4, <1>5, <2>1 DEF AloneInv, CopyOf
<1>8. CASE ~Present(files[t], x) /\ Go(Main, e)
  <2>1. call'[Main] = e
    BY <1>8, MainGoes DEF Go, AloneInv
  <2> HIDE DEF t, x
  <2> QED BY <1>0, <1>1, <1>2, <1>4, <1>6, <1>8, <2>1 DEF AloneInv, CopyOf
<1>9. CASE Go(Main, b)
  <2>1. call'[Main] = b
    BY <1>9, MainGoes DEF Go, AloneInv
  <2> HIDE DEF t, x
  <2> QED BY <1>0, <1>2, <1>b, <2>1 DEF AloneInv, CopyOf
<1> QED BY <1>3, <1>7, <1>8, <1>9

LEMMA AloneWrite ==
  ASSUME AloneInv, NEW es, WriteAs(Main, es), TypeInv'
  PROVE  AloneInv'
<1> DEFINE d == [call[Main] EXCEPT !.at = "unique", !.buf = <<>>, !.blind = FALSE]
<1>1. call' = [call EXCEPT ![Main] = d]
  BY MemoryAssumption, WrittenCall DEF AloneInv, TypeInv, MemoryAssumption, WriteAs
<1>2. call[Main] \in CallType
  BY MemoryAssumption DEF AloneInv, TypeInv, Calls, MemoryAssumption
<1>3. d.at = "unique" /\ d.op = call[Main].op /\ d.sent = call[Main].sent
  BY <1>2 DEF CallType
<1> HIDE DEF d
<1>4. call'[Main] = d
  BY <1>1, MainGoes DEF AloneInv
<1> QED BY <1>1, <1>3, <1>4 DEF AloneInv, CopyOf

LEMMA AloneWriteFails ==
  ASSUME AloneInv, WriteFails(Main)
  PROVE  AloneInv'
<1> DEFINE d == [call[Main] EXCEPT !.at = "unique", !.buf = <<>>, !.blind = FALSE,
                   !.todo = IF call[Main].at = "rewrite" THEN <<>> ELSE @]
<1>0. TypeInv' /\ Main \in Agents
  BY MemoryAssumption, WriteFailsTyped DEF AloneInv, MemoryAssumption
<1>1. call' = [call EXCEPT ![Main] = d]
  BY DEF WriteFails, Go
<1>2. call[Main] \in CallType
  BY MemoryAssumption DEF AloneInv, TypeInv, Calls, MemoryAssumption
<1>3. d.at = "unique" /\ d.op = call[Main].op /\ d.sent = call[Main].sent
  BY <1>2 DEF CallType
<1> HIDE DEF d
<1>4. call'[Main] = d
  BY <1>1, MainGoes DEF AloneInv
<1> QED BY <1>0, <1>1, <1>3, <1>4 DEF AloneInv, CopyOf

\* A call begins, or ends.
LEMMA AloneBegin ==
  ASSUME AloneInv, TypeInv', NEW c, call' = [call EXCEPT ![Main] = c],
         c.at \notin {"located", "rewrite", "append"}
  PROVE  AloneInv'
<1>1. call'[Main] = c
  BY MainGoes DEF AloneInv
<1> QED BY <1>1 DEF AloneInv, CopyOf

\* So every step does.
LEMMA AloneNext == Agents = {Main} /\ AloneInv /\ [Next]_vars => AloneInv'
<1> SUFFICES ASSUME Agents = {Main}, AloneInv, [Next]_vars
             PROVE  AloneInv'
  OBVIOUS
<1>0. TypeInv /\ TypeInv' /\ Main \in Agents
  BY NextTyped DEF AloneInv
<1>00. NoCall.at = "idle" /\ NoCall.op = "none"
  BY DEF NoCall
<1>1. CASE Start
  <2>1. [NoCall EXCEPT !.op = "migrate", !.at = "unique", !.todo = Legacy].at = "unique"
    BY DEF NoCall
  <2> QED BY <1>0, <1>1, <2>1, AloneBegin DEF Start
<1>2. CASE DiskFills \/ Observe \/ UNCHANGED vars
  <2>1. files' = files /\ call' = call
    BY <1>2 DEF DiskFills, Observe, vars
  <2> QED BY <1>0, <2>1, SameCopy DEF AloneInv
<1>3. CASE StartFails \/ Exit \/ Crash
  <2>1. call'[Main].at = "idle"
    BY <1>0, <1>00, <1>3 DEF StartFails, Exit, Crash, Free, TypeInv, Calls, Stage
  <2> QED BY <1>0, <2>1 DEF AloneInv, CopyOf
<1>4. ASSUME NEW t \in Types, NEW x \in Content, Remember(Main, t, x)
      PROVE  AloneInv'
  <2> DEFINE c == [NoCall EXCEPT !.op = "remember", !.at = "unique", !.todo = <<<<t, x>>>>]
  <2>1. c.at = "unique"
    BY DEF NoCall
  <2>2. call' = [call EXCEPT ![Main] = c]
    BY <1>4 DEF Remember, Begin
  <2> HIDE DEF c
  <2> QED BY <1>0, <2>1, <2>2, AloneBegin
<1>5. ASSUME NEW i \in Indices(files), NEW t, NEW x, Delete(Main, i) \/ Update(Main, i, t, x)
      PROVE  AloneInv'
  <2>1. CopyOf(call[Main])'
    BY <1>5, AloneFind DEF Delete, Update
  <2> QED BY <1>0, <2>1 DEF AloneInv
<1>6. CASE Edit(Main)
  BY <1>6, AloneEdit
<1>7. CASE ReadUnique(Main)
  BY <1>7, AloneReadUnique
<1>8. CASE Write(Main) \/ WriteShort(Main)
  BY <1>0, <1>8, AloneWrite DEF Write, WriteShort
<1>9. CASE WriteFails(Main)
  BY <1>9, AloneWriteFails
<1>10. CASE Finish(Main)
  BY <1>0, <1>00, <1>10, AloneBegin DEF Finish
<1>12. CASE Consolidate
  <2> DEFINE c == [NoCall EXCEPT !.op = "consolidate", !.at = "asked", !.sent = obs]
  <2>1. c.at = "asked"
    BY DEF NoCall
  <2>2. call' = [call EXCEPT ![Main] = c]
    BY <1>12 DEF Consolidate, Begin
  <2> HIDE DEF c
  <2> QED BY <1>0, <2>1, <2>2, AloneBegin
<1>13. ASSUME NEW ms \in Answers, Answer(ms)
       PROVE  AloneInv'
  <2> DEFINE c == [call[Main] EXCEPT !.at = "unique",
                     !.todo = SubSeq(ms, 1, IF Len(ms) < MaxAnswer THEN Len(ms) ELSE MaxAnswer)]
  <2>1. call[Main] \in CallType
    BY <1>0 DEF TypeInv, Calls
  <2>2. c.at = "unique"
    BY <2>1 DEF CallType
  <2>3. call' = [call EXCEPT ![Main] = c]
    BY <1>13 DEF Answer, Go
  <2> HIDE DEF c
  <2> QED BY <1>0, <2>2, <2>3, AloneBegin
<1>14. CASE AnswerFails
  BY <1>0, <1>00, <1>14, AloneBegin DEF AnswerFails, Go
<1> QED BY <1>0, <1>1, <1>2, <1>3, <1>4, <1>5, <1>6, <1>7, <1>8, <1>9, <1>10, <1>12,
           <1>13, <1>14, MainOnly DEF Next, Rest
------------------------------------------------------------------------------
\* Once the program runs only a write changes a file.
LEMMA FilesChange ==
  ASSUME Agents = {Main}, [Next]_vars, up
  PROVE  files' = files \/ Write(Main) \/ WriteShort(Main)
  BY MainOnly
  DEF Next, Rest, vars, counters, Start, StartFails, Exit, Crash, DiskFills, Remember, Update,
      Delete, Find, Begin, Edit, ReadUnique, WriteFails, Finish, Observe, Go, Consolidate,
      Answer, AnswerFails

\* What a write makes of the copies of an entry.
LEMMA CopiesAppended ==
  ASSUME NEW es \in PlainSeq, NEW x \in Content, NEW e
  PROVE  Copies(ReadBack(Append(es, x)), e) = Copies(es, e) + Copies(Lines[x], e)
  BY AppendReadsBack, LinesPlain, CopiesAdd DEF PlainSeq

\* The copies in the file that a delete and an update write.
LEMMA CopiesWithout ==
  ASSUME NEW es \in PlainSeq, NEW k \in 1..Len(es), NEW e
  PROVE  Copies(ReadBack(Without(es, k)), e) = Copies(es, e) - (IF es[k] = e THEN 1 ELSE 0)
<1>1. es \in Seq(Content)
  BY DEF PlainSeq
<1>2. ReadBack(Without(es, k)) = Ahead(es, k) \o Behind(es, k)
  BY PartsPlain, PlainReadsBack DEF Without, RemoveAt, Ahead, Behind
<1>3. Ahead(es, k) \in Seq(Content) /\ Behind(es, k) \in Seq(Content)
  BY <1>1, PartsTyped
<1>4. Copies(Ahead(es, k) \o Behind(es, k), e) = Copies(Ahead(es, k), e) + Copies(Behind(es, k), e)
  BY <1>3, CopiesAdd
<1>5. /\ Copies(Ahead(es, k), e) \in Nat /\ Copies(Behind(es, k), e) \in Nat
      /\ Copies(es, e) = Copies(Ahead(es, k), e) + (IF es[k] = e THEN 1 ELSE 0)
                           + Copies(Behind(es, k), e)
  BY <1>1, CopiesAround
<1> QED BY <1>2, <1>4, <1>5

LEMMA CopiesReplaced ==
  ASSUME NEW es \in PlainSeq, NEW k \in 1..Len(es), NEW x \in Content, NEW e
  PROVE  Copies(ReadBack(ReplaceAt(es, k, x)), e)
           = Copies(es, e) - (IF es[k] = e THEN 1 ELSE 0) + Copies(Lines[x], e)
<1>1. es \in Seq(Content) /\ Lines[x] \in Seq(Content)
  BY LinesPlain DEF PlainSeq
<1>2. ReadBack(ReplaceAt(es, k, x)) = (Ahead(es, k) \o Lines[x]) \o Behind(es, k)
  BY ReplaceReadsBack
<1>3. Ahead(es, k) \in Seq(Content) /\ Behind(es, k) \in Seq(Content)
  BY <1>1, PartsTyped
<1>4. Ahead(es, k) \o Lines[x] \in Seq(Content)
  BY <1>1, <1>3, ConcatProperties
<1>5. /\ Copies(Ahead(es, k) \o Lines[x], e) = Copies(Ahead(es, k), e) + Copies(Lines[x], e)
      /\ Copies((Ahead(es, k) \o Lines[x]) \o Behind(es, k), e)
           = Copies(Ahead(es, k) \o Lines[x], e) + Copies(Behind(es, k), e)
  <2>1. \A s, u \in Seq(Content) : Copies(s \o u, e) = Copies(s, e) + Copies(u, e)
    BY CopiesAdd
  <2> QED BY <1>1, <1>3, <1>4, <2>1, Zenon
<1>6. /\ Copies(Ahead(es, k), e) \in Nat /\ Copies(Behind(es, k), e) \in Nat
      /\ Copies(es, e) = Copies(Ahead(es, k), e) + (IF es[k] = e THEN 1 ELSE 0)
                           + Copies(Behind(es, k), e)
  BY <1>1, CopiesAround
<1>7. Copies(Lines[x], e) \in Nat
  BY <1>1, PlacesFinite
<1> QED BY <1>2, <1>5, <1>6, <1>7

\* Of a file that is written whole, an entry goes only where the call named it.
LEMMA WriteDrops ==
  ASSUME AloneInv, Write(Main), ~call[Main].blind, NEW t \in Types, NEW e \in Content,
         Copies(files'[t], e) < Copies(files[t], e)
  PROVE  /\ Copies(files'[t], e) = Copies(files[t], e) - 1
         /\ call[Main].at = "rewrite" /\ call[Main].named = <<t, e>>
<1> DEFINE c  == call[Main]
           es == files[c.type]
<1>1. /\ c.at \in {"rewrite", "append"} /\ c.type \in Types
      /\ files' = [files EXCEPT ![c.type] = ReadBack(c.buf)]
  BY MemoryAssumption
  DEF Write, WriteAs, AloneInv, TypeInv, Calls, CallType, MemoryAssumption
<1>2. files \in [Types -> PlainSeq] /\ es \in PlainSeq
  BY <1>1 DEF AloneInv, TypeInv
<1>3. files[t] \in Seq(Content) /\ Copies(files[t], e) \in Nat
  BY <1>2, PlacesFinite DEF PlainSeq
<1>4. t = c.type /\ files'[t] = ReadBack(c.buf)
  BY <1>1, <1>2, <1>3
<1>5. Copies(es, e) \in Nat /\ Copies(ReadBack(c.buf), e) < Copies(es, e)
  BY <1>3, <1>4
<1>6. CASE c.at = "append"
  <2>1. PICK x \in Content : c.buf = Append(es, x)
    BY <1>6 DEF AloneInv, CopyOf
  <2>2. Copies(ReadBack(c.buf), e) = Copies(es, e) + Copies(Lines[x], e)
    BY <1>2, <2>1, CopiesAppended
  <2>3. Copies(Lines[x], e) \in Nat
    BY LinesPlain, PlacesFinite DEF PlainSeq
  <2> QED BY <1>5, <2>2, <2>3
<1>7. CASE c.at = "rewrite"
  <2>1. PICK k \in 1..Len(es) :
          /\ c.named = <<c.type, es[k]>>
          /\ \/ c.buf = Without(es, k)
             \/ \E x \in Content : c.buf = ReplaceAt(es, k, x)
    BY <1>7 DEF AloneInv, CopyOf
  <2>2. CASE c.buf = Without(es, k)
    <3>1. Copies(ReadBack(c.buf), e) = Copies(es, e) - (IF es[k] = e THEN 1 ELSE 0)
      BY <1>2, <2>2, CopiesWithout
    <3>2. es[k] = e /\ Copies(ReadBack(c.buf), e) = Copies(es, e) - 1
      BY <1>5, <3>1
    <3> QED BY <1>4, <1>7, <2>1, <3>2
  <2>3. CASE \E x \in Content : c.buf = ReplaceAt(es, k, x)
    <3>1. PICK x \in Content : c.buf = ReplaceAt(es, k, x)
      BY <2>3
    <3>2. Copies(ReadBack(c.buf), e)
            = Copies(es, e) - (IF es[k] = e THEN 1 ELSE 0) + Copies(Lines[x], e)
      BY <1>2, <3>1, CopiesReplaced
    <3>3. Copies(Lines[x], e) \in Nat
      BY LinesPlain, PlacesFinite DEF PlainSeq
    <3>4. es[k] = e /\ Copies(ReadBack(c.buf), e) = Copies(es, e) - 1
      BY <1>5, <3>2, <3>3
    <3> QED BY <1>4, <1>7, <2>1, <3>4
  <2> QED BY <2>1, <2>2, <2>3
<1> QED BY <1>1, <1>6, <1>7

\* Of a file that was only added to, in whole or cut short, nothing is doubled.
LEMMA AppendDoublesNothing ==
  ASSUME AloneInv, call[Main].at = "append", Plain(Last(call[Main].buf)),
         NEW n \in Nat, n <= Len(ReadBack(call[Main].buf)),
         NEW e \in Content
  PROVE  LET new == SubSeq(ReadBack(call[Main].buf), 1, n)
             old == files[call[Main].type]
         IN  Copies(new, e) <= 1 \/ Copies(new, e) <= Copies(old, e)
<1> DEFINE c  == call[Main]
           es == files[c.type]
           r  == ReadBack(c.buf)
<1>1. c.type \in Types /\ c.buf \in Seq(Content)
  BY MemoryAssumption DEF AloneInv, TypeInv, Calls, CallType, MemoryAssumption
<1>2. es \in PlainSeq /\ es \in Seq(Content) /\ Len(es) \in Nat
  BY <1>1, LenProperties DEF AloneInv, TypeInv, PlainSeq
<1>3. PICK x \in Content : c.buf = <<x>> \/ (~Present(es, x) /\ c.buf = Append(es, x))
  BY DEF AloneInv, CopyOf
<1>4. Lines[x] = <<x>>
  <2>1. Last(<<x>>) = x
    BY DEF Last
  <2>2. Last(Append(es, x)) = x
    BY <1>2, AppendProperties DEF Last
  <2> QED BY <1>3, <2>1, <2>2 DEF Plain
<1>5. r \in Seq(Content)
  BY <1>1, ReadBackPlain DEF PlainSeq
<1>6. \/ Copies(r, e) = IF x = e THEN 1 ELSE 0
      \/ /\ x = e => Copies(es, e) = 0
         /\ Copies(r, e) = Copies(es, e) + (IF x = e THEN 1 ELSE 0)
  <2>1. CASE c.buf = <<x>>
    <3>1. <<x>> \in PlainSeq
      BY <1>4 DEF PlainSeq, Plain
    <3>2. r = <<x>>
      BY <2>1, <3>1, PlainReadsBack
    <3> QED BY <3>2, CopiesOfOne
  <2>2. CASE ~Present(es, x) /\ c.buf = Append(es, x)
    <3>1. Copies(r, e) = Copies(es, e) + Copies(Lines[x], e)
      BY <1>2, <2>2, CopiesAppended
    <3>2. Copies(<<x>>, e) = IF x = e THEN 1 ELSE 0
      BY CopiesOfOne
    <3>3. x = e => Copies(es, e) = 0
      BY <2>2, NoCopies
    <3> HIDE DEF r, es
    <3> QED BY <1>4, <3>1, <3>2, <3>3
  <2> QED BY <1>3, <2>1, <2>2
<1>7. Copies(SubSeq(r, 1, n), e) <= Copies(r, e)
  BY <1>5, CopiesOfPart
<1>8. Copies(SubSeq(r, 1, n), e) \in Nat /\ Copies(es, e) \in Nat
  <2>1. Len(r) \in Nat
    BY <1>5, LenProperties
  <2>2. \A i \in 1..n : r[i] \in Content
    BY <1>5, <2>1, ElementOfSeq
  <2>3. SubSeq(r, 1, n) \in Seq(Content)
    BY <2>2, SubSeqProperties
  <2> QED BY <1>2, <2>3, PlacesFinite
<1>9. Copies(r, e) \in Nat
  BY <1>5, PlacesFinite
<1> HIDE DEF r, es
<1>10. Copies(SubSeq(r, 1, n), e) <= 1 \/ Copies(SubSeq(r, 1, n), e) <= Copies(es, e)
  BY <1>6, <1>7, <1>8, <1>9
<1> QED BY <1>10 DEF r, es

\* The three action properties, of a step from a state the invariant holds in.
LEMMA StepLeavesByName ==
  ASSUME Agents = {Main}, AloneInv, [Next]_vars, ~full, ~Misread,
         NEW t \in Types, NEW e \in Content, Copies(files'[t], e) < Copies(files[t], e)
  PROVE  /\ Copies(files'[t], e) = Copies(files[t], e) - 1
         /\ \E a \in Agents : call[a].at = "rewrite" /\ call[a].named = <<t, e>>
<1>1. Copies(files[t], e) \in Nat
  BY PlacesFinite DEF AloneInv, TypeInv, PlainSeq
<1>2. Write(Main)
  BY <1>1, FilesChange DEF WriteShort, Misread
<1> QED BY <1>2, WriteDrops DEF Misread

LEMMA StepMakesNoSecond ==
  ASSUME Agents = {Main}, AloneInv, [Next]_vars,
         call[Main].at = "append", Plain(Last(call[Main].buf)),
         NEW t \in Types, NEW e \in Content
  PROVE  Copies(files'[t], e) <= 1 \/ Copies(files'[t], e) <= Copies(files[t], e)
<1> DEFINE c == call[Main]
           r == ReadBack(c.buf)
<1>1. /\ files \in [Types -> PlainSeq] /\ c.type \in Types /\ c.buf \in Seq(Content)
  BY MemoryAssumption DEF AloneInv, TypeInv, Calls, CallType, MemoryAssumption
<1>2. Copies(files[t], e) \in Nat
  BY <1>1, PlacesFinite DEF PlainSeq
<1>3. r \in Seq(Content) /\ Len(r) \in Nat
  BY <1>1, ReadBackPlain, LenProperties DEF PlainSeq
<1>0. up
  BY MemoryAssumption DEF AloneInv, TypeInv, MemoryAssumption
<1>4. CASE files' = files
  BY <1>2, <1>4
<1>5. CASE Write(Main) \/ WriteShort(Main)
  <2>1. PICK n \in 0..Len(r) : files' = [files EXCEPT ![c.type] = SubSeq(r, 1, n)]
    <3>1. CASE Write(Main)
      <4>1. SubSeq(r, 1, Len(r)) = r
        BY <1>3, SubSeqFull
      <4>2. files' = [files EXCEPT ![c.type] = r]
        BY <3>1 DEF Write, WriteAs
      <4>3. Len(r) \in 0..Len(r)
        BY <1>3
      <4> HIDE DEF r, c
      <4> QED BY <4>1, <4>2, <4>3
    <3>2. CASE WriteShort(Main)
      <4>1. PICK n \in 0..(Len(r) - 1) : files' = [files EXCEPT ![c.type] = SubSeq(r, 1, n)]
        BY <3>2 DEF WriteShort, WriteAs
      <4>2. n \in 0..Len(r)
        BY <1>3
      <4> HIDE DEF r, c
      <4> QED BY <4>1, <4>2
    <3> QED BY <1>5, <3>1, <3>2
  <2>2. n \in Nat /\ n <= Len(r)
    BY <1>3
  <2>3. CASE t = c.type
    <3>1. files'[t] = SubSeq(r, 1, n)
      BY <1>1, <2>1, <2>3
    <3>2. Copies(SubSeq(r, 1, n), e) <= 1 \/ Copies(SubSeq(r, 1, n), e) <= Copies(files[c.type], e)
      BY <2>2, AppendDoublesNothing
    <3> QED BY <2>3, <3>1, <3>2
  <2>4. CASE t # c.type
    <3>1. files'[t] = files[t]
      BY <1>1, <2>1, <2>4
    <3> QED BY <1>2, <3>1
  <2> QED BY <2>3, <2>4
<1> QED BY <1>0, <1>4, <1>5, FilesChange

\* obs_add drops nothing but the oldest of a full buffer.
LEMMA ObsAddKeeps ==
  ASSUME TypeInv, NEW x \in 1..MaxSeen, NEW k \in DOMAIN obs
  PROVE  \/ \E j \in DOMAIN ObsAdd(obs, x) : ObsAdd(obs, x)[j] = obs[k]
         \/ k = 1 /\ Len(obs) = MaxObs /\ Len(ObsAdd(obs, x)) = MaxObs
<1>1. obs \in Seq(1..MaxSeen) /\ Len(obs) \in Nat /\ DOMAIN obs = 1..Len(obs) /\ Len(obs) <= MaxObs
  BY LenProperties DEF TypeInv
<1>2. MaxObs \in Nat \ {0}
  BY MemoryAssumption DEF MemoryAssumption
<1>3. CASE Len(obs) >= MaxObs
  <2> DEFINE q == Tail(obs)
             u == Append(q, x)
  <2>1. obs # <<>> /\ Len(obs) = MaxObs
    <3>1. Len(obs) # 0
      BY <1>2, <1>3
    <3>2. \A n \in Nat, m \in Nat : n <= m /\ n >= m => n = m
      OBVIOUS
    <3> QED BY <1>1, <1>2, <1>3, <3>1, <3>2, EmptySeq
  <2>2. /\ q \in Seq(1..MaxSeen) /\ Len(q) = Len(obs) - 1
        /\ \A i \in 1..Len(q) : q[i] = obs[i+1]
    BY <1>1, <2>1, HeadTailProperties
  <2> HIDE DEF q
  <2>3. /\ u \in Seq(1..MaxSeen) /\ Len(u) = Len(q) + 1
        /\ \A i \in 1..Len(q) : u[i] = q[i]
    BY <2>2, AppendProperties
  <2>4. ObsAdd(obs, x) = u
    BY <1>3 DEF ObsAdd, q
  <2> HIDE DEF u
  <2>5. DOMAIN u = 1..Len(obs) /\ Len(u) = Len(obs)
    <3>1. DOMAIN u = 1..Len(u)
      BY <2>3, LenProperties
    <3>2. Len(u) = Len(obs)
      BY <1>1, <2>2, <2>3
    <3> QED BY <3>1, <3>2
  <2>6. CASE k = 1
    BY <2>1, <2>4, <2>5, <2>6
  <2>7. CASE k # 1
    <3>1. k - 1 \in 1..Len(q) /\ k - 1 \in 1..Len(obs) /\ (k - 1) + 1 = k
      BY <1>1, <2>2, <2>7
    <3>2. u[k-1] = obs[k]
      BY <2>2, <2>3, <3>1
    <3> QED BY <2>4, <2>5, <3>1, <3>2
  <2> QED BY <2>6, <2>7
<1>4. CASE ~ (Len(obs) >= MaxObs)
  <2> DEFINE u == Append(obs, x)
  <2>1. /\ u \in Seq(1..MaxSeen) /\ Len(u) = Len(obs) + 1
        /\ \A i \in 1..Len(obs) : u[i] = obs[i]
    BY <1>1, AppendProperties
  <2>2. ObsAdd(obs, x) = u
    BY <1>4 DEF ObsAdd
  <2> HIDE DEF u
  <2>3. DOMAIN u = 1..Len(u)
    BY <2>1, LenProperties
  <2>4. k \in 1..Len(u)
    BY <1>1, <2>1
  <2> QED BY <1>1, <2>1, <2>2, <2>3, <2>4
<1> QED BY <1>3, <1>4

------------------------------------------------------------------------------
(***************************************************************************)
(* The buffer of observations, which any number of agents fill.  What a    *)
(* consolidation may clear was in its prompt, or came later.               *)
(***************************************************************************)
Covered(s, x) == (\E j \in DOMAIN s : s[j] = x) \/ x > Last(s)

\* The observations that a call of /memory was made over, and those of now.
Asked(c) ==
  /\ c.sent # <<>> /\ Last(c.sent) <= seen
  /\ \A k \in DOMAIN obs : Covered(c.sent, obs[k])

ObsInv ==
  /\ TypeInv
  /\ \A k \in DOMAIN obs : obs[k] <= seen
  /\ \A a \in Agents : call[a].op = "consolidate" => a = Main /\ Asked(call[a])

LEMMA ObsInit == Init => ObsInv
<1> SUFFICES ASSUME Init PROVE ObsInv
  OBVIOUS
<1>1. \A a \in Agents : call[a].op = "none"
  BY DEF Init, NoCall
<1>2. obs = <<>>
  BY DEF Init
<1> QED BY <1>1, <1>2, InitTyped DEF ObsInv

\* A step in which one call goes on, of the operation it was and with what it sent.
LEMMA ObsGoes ==
  ASSUME ObsInv, TypeInv', obs' = obs, seen' = seen, NEW a \in Agents, NEW c,
         call' = [call EXCEPT ![a] = c],
         c.op = "consolidate" => call[a].op = "consolidate" /\ c.sent = call[a].sent
  PROVE  ObsInv'
<1>1. ASSUME NEW b \in Agents, call'[b].op = "consolidate"
      PROVE  b = Main /\ Asked(call[b])'
  <2>1. call[b].op = "consolidate" /\ call'[b].sent = call[b].sent
    BY <1>1 DEF ObsInv, TypeInv, Calls
  <2> QED BY <2>1 DEF ObsInv, Asked
<1> QED BY <1>1 DEF ObsInv

\* What obs_add leaves in the buffer was there, or is the new observation.
LEMMA ObsAddFrom ==
  ASSUME TypeInv, NEW x \in 1..MaxSeen, NEW k \in DOMAIN ObsAdd(obs, x)
  PROVE  ObsAdd(obs, x)[k] = x \/ \E i \in DOMAIN obs : obs[i] = ObsAdd(obs, x)[k]
<1>1. obs \in Seq(1..MaxSeen) /\ Len(obs) \in Nat /\ DOMAIN obs = 1..Len(obs)
  BY LenProperties DEF TypeInv
<1>2. CASE Len(obs) >= MaxObs
  <2> DEFINE q == Tail(obs)
             u == Append(q, x)
  <2>1. obs # <<>>
    <3>1. MaxObs \in Nat \ {0}
      BY MemoryAssumption DEF MemoryAssumption
    <3> QED BY <1>2, <3>1, EmptySeq
  <2>2. /\ q \in Seq(1..MaxSeen) /\ Len(q) = Len(obs) - 1
        /\ \A i \in 1..Len(q) : q[i] = obs[i+1]
    BY <1>1, <2>1, HeadTailProperties
  <2> HIDE DEF q
  <2>3. /\ u \in Seq(1..MaxSeen) /\ Len(u) = Len(q) + 1 /\ u[Len(q) + 1] = x
        /\ \A i \in 1..Len(q) : u[i] = q[i]
    BY <2>2, AppendProperties
  <2>4. ObsAdd(obs, x) = u
    BY <1>2 DEF ObsAdd, q
  <2> HIDE DEF u
  <2>5. k \in 1..(Len(q) + 1)
    BY <2>3, <2>4, LenProperties
  <2>6. CASE k = Len(q) + 1
    BY <2>3, <2>4, <2>6
  <2>7. CASE k # Len(q) + 1
    <3>1. k \in 1..Len(q) /\ k + 1 \in 1..Len(obs)
      BY <1>1, <2>2, <2>5, <2>7
    <3> QED BY <1>1, <2>2, <2>3, <2>4, <3>1
  <2> QED BY <2>6, <2>7
<1>3. CASE ~ (Len(obs) >= MaxObs)
  <2> DEFINE u == Append(obs, x)
  <2>1. /\ u \in Seq(1..MaxSeen) /\ Len(u) = Len(obs) + 1 /\ u[Len(obs) + 1] = x
        /\ \A i \in 1..Len(obs) : u[i] = obs[i]
    BY <1>1, AppendProperties
  <2>2. ObsAdd(obs, x) = u
    BY <1>3 DEF ObsAdd
  <2> HIDE DEF u
  <2>3. k \in 1..(Len(obs) + 1)
    BY <2>1, <2>2, LenProperties
  <2>4. CASE k = Len(obs) + 1
    BY <2>1, <2>2, <2>4
  <2>5. CASE k # Len(obs) + 1
    <3>1. k \in 1..Len(obs)
      BY <1>1, <2>3, <2>5
    <3> QED BY <1>1, <2>1, <2>2, <3>1
  <2> QED BY <2>4, <2>5
<1> QED BY <1>2, <1>3

LEMMA ObsObserve ==
  ASSUME ObsInv, TypeInv', Observe
  PROVE  ObsInv'
<1>1. seen + 1 \in 1..MaxSeen /\ obs' = ObsAdd(obs, seen + 1) /\ seen' = seen + 1
      /\ call' = call /\ seen \in Nat
  BY MemoryAssumption DEF Observe, ObsInv, TypeInv, MemoryAssumption
<1>2. \A k \in DOMAIN obs : obs[k] \in Nat
  <2>1. obs \in Seq(1..MaxSeen)
    BY DEF ObsInv, TypeInv
  <2>2. DOMAIN obs = 1..Len(obs)
    BY <2>1, LenProperties
  <2>3. \A k \in DOMAIN obs : obs[k] \in 1..MaxSeen
    BY <2>1, <2>2, ElementOfSeq
  <2> QED BY <2>3
<1>3. ASSUME NEW k \in DOMAIN obs'
      PROVE  obs'[k] = seen + 1 \/ \E i \in DOMAIN obs : obs[i] = obs'[k]
  BY <1>1, ObsAddFrom DEF ObsInv
<1>4. \A k \in DOMAIN obs' : obs'[k] <= seen'
  <2> SUFFICES ASSUME NEW k \in DOMAIN obs' PROVE obs'[k] <= seen'
    OBVIOUS
  <2>1. CASE obs'[k] = seen + 1
    BY <1>1, <2>1
  <2>2. CASE \E i \in DOMAIN obs : obs[i] = obs'[k]
    <3>1. PICK i \in DOMAIN obs : obs[i] = obs'[k]
      BY <2>2
    <3>2. obs[i] <= seen /\ obs[i] \in Nat
      BY <1>2 DEF ObsInv
    <3> QED BY <1>1, <3>1, <3>2
  <2> QED BY <1>3, <2>1, <2>2
<1>5. ASSUME NEW a \in Agents, call[a].op = "consolidate"
      PROVE  a = Main /\ Asked(call[a])'
  <2> DEFINE s == call[a].sent
  <2>1. a = Main /\ s # <<>> /\ Last(s) <= seen /\ \A k \in DOMAIN obs : Covered(s, obs[k])
    BY <1>5 DEF ObsInv, Asked
  <2>2. Last(s) \in Nat
    <3>1. s \in Seq(1..MaxSeen)
      BY DEF ObsInv, TypeInv, Calls, CallType
    <3> HIDE DEF s
    <3>2. Len(s) \in 1..Len(s)
      BY <2>1, <3>1, EmptySeq, LenProperties
    <3>3. s[Len(s)] \in 1..MaxSeen
      BY <3>1, <3>2, ElementOfSeq
    <3> QED BY <3>3 DEF Last
  <2> HIDE DEF s
  <2>3. Last(s) <= seen'
    BY <1>1, <2>1, <2>2
  <2>4. ASSUME NEW k \in DOMAIN obs' PROVE Covered(s, obs'[k])
    <3>1. CASE obs'[k] = seen + 1
      BY <1>1, <2>1, <2>2, <3>1 DEF Covered
    <3>2. CASE \E i \in DOMAIN obs : obs[i] = obs'[k]
      BY <2>1, <3>2
    <3> QED BY <1>3, <3>1, <3>2
  <2> QED BY <1>1, <2>1, <2>3, <2>4 DEF Asked, s
<1> QED BY <1>1, <1>4, <1>5 DEF ObsInv

LEMMA ObsConsolidate ==
  ASSUME ObsInv, TypeInv', Consolidate
  PROVE  ObsInv'
<1> DEFINE c == [NoCall EXCEPT !.op = "consolidate", !.at = "asked", !.sent = obs]
<1>1. c.sent = obs
  BY DEF NoCall
<1>2. call' = [call EXCEPT ![Main] = c] /\ obs' = obs /\ seen' = seen /\ obs # <<>>
  BY DEF Consolidate, Begin
<1> HIDE DEF c
<1>3. Len(obs) \in DOMAIN obs
  BY <1>2, EmptySeq, LenProperties DEF ObsInv, TypeInv
<1>4. Last(obs) <= seen
  BY <1>3 DEF Last, ObsInv
<1>5. \A k \in DOMAIN obs : Covered(obs, obs[k])
  BY DEF Covered
<1>6. ASSUME NEW a \in Agents, call'[a].op = "consolidate"
      PROVE  a = Main /\ Asked(call[a])'
  <2>1. CASE a = Main
    <3>1. call'[a] = c
      BY <1>2, <2>1 DEF ObsInv, TypeInv, Calls
    <3> QED BY <1>1, <1>2, <1>4, <1>5, <2>1, <3>1 DEF Asked
  <2>2. CASE a # Main
    <3>1. call'[a] = call[a]
      BY <1>2, <2>2 DEF ObsInv, TypeInv, Calls
    <3> QED BY <1>6, <2>2, <3>1 DEF ObsInv
  <2> QED BY <2>1, <2>2
<1> QED BY <1>2, <1>6 DEF ObsInv

\* The call ends, and perhaps the buffer is cleared.
LEMMA ObsFinish ==
  ASSUME ObsInv, TypeInv', NEW a \in Agents, Finish(a)
  PROVE  ObsInv'
<1>1. NoCall.op = "none"
  BY DEF NoCall
<1>2. call' = [call EXCEPT ![a] = NoCall] /\ seen' = seen
  BY DEF Finish, counters
<1>3. CASE obs' = obs
  BY <1>1, <1>2, <1>3, ObsGoes
<1>4. CASE obs' = <<>>
  <2>1. ASSUME NEW b \in Agents, call'[b].op = "consolidate"
        PROVE  b = Main /\ Asked(call[b])'
    <3>1. call'[b] = call[b]
      BY <1>1, <1>2, <2>1 DEF ObsInv, TypeInv, Calls
    <3> QED BY <1>2, <1>4, <2>1, <3>1 DEF ObsInv, Asked
  <2> QED BY <1>4, <2>1 DEF ObsInv
<1> QED BY <1>3, <1>4 DEF Finish

\* The program ends, with no call.
LEMMA ObsEnds ==
  ASSUME ObsInv, TypeInv', Exit \/ Crash
  PROVE  ObsInv'
<1>1. obs' = <<>> /\ \A a \in Agents : call'[a].at = "idle"
  BY DEF Exit, Crash, Free, NoCall
<1>2. \A a \in Agents : call'[a].op = "none"
  BY <1>1 DEF TypeInv, Calls, Stage
<1> QED BY <1>1, <1>2 DEF ObsInv

\* A call that is found to go on, of the operation it was.
LEMMA ObsCalls ==
  ASSUME ObsInv, TypeInv', NEW a \in Agents,
         Edit(a) \/ ReadUnique(a) \/ Write(a) \/ WriteShort(a) \/ WriteFails(a)
  PROVE  ObsInv'
<1> DEFINE c == call[a]
<1>1. c \in CallType /\ Calls /\ obs' = obs /\ seen' = seen
  BY DEF ObsInv, TypeInv, Calls, Edit, ReadUnique, Write, WriteShort, WriteAs, WriteFails, Go, counters
<1>2. NoCall.op = "none"
  BY DEF NoCall
<1>3. CASE Edit(a)
  <2> DEFINE es == files[c.type]
             r == [c EXCEPT !.at = "rewrite", !.todo = <<>>,
                     !.buf = ReplaceAt(es, c.pos, c.todo[1][2])]
             w == [c EXCEPT !.at = "rewrite", !.buf = Without(es, c.pos)]
  <2>1. Go(a, NoCall) \/ Go(a, r) \/ Go(a, w)
    BY <1>3 DEF Edit
  <2>2. r.op = c.op /\ r.sent = c.sent /\ w.op = c.op /\ w.sent = c.sent
    BY <1>1 DEF CallType
  <2> HIDE DEF r, w
  <2> QED BY <1>1, <1>2, <2>1, <2>2, ObsGoes DEF Go
<1>4. CASE ReadUnique(a)
  <2> DEFINE t == c.todo[1][1]
             x == c.todo[1][2]
             d == [c EXCEPT !.todo = Tail(@)]
             e == [c EXCEPT !.todo = Tail(@), !.at = "append", !.type = t,
                     !.buf = Append(files[t], x)]
             b == [c EXCEPT !.todo = Tail(@), !.at = "append", !.type = t,
                     !.buf = <<x>>, !.blind = TRUE]
  <2>1. Go(a, d) \/ Go(a, e) \/ Go(a, b)
    BY <1>4 DEF ReadUnique
  <2>2. /\ d.op = c.op /\ d.sent = c.sent /\ e.op = c.op /\ e.sent = c.sent
        /\ b.op = c.op /\ b.sent = c.sent
    BY <1>1 DEF CallType
  <2> HIDE DEF d, e, b
  <2> QED BY <1>1, <2>1, <2>2, ObsGoes DEF Go
<1>5. CASE Write(a) \/ WriteShort(a)
  <2> DEFINE d == [c EXCEPT !.at = "unique", !.buf = <<>>, !.blind = FALSE]
  <2>1. call' = [call EXCEPT ![a] = d]
    BY <1>1, <1>5, WrittenCall DEF Write, WriteShort
  <2>2. d.op = c.op /\ d.sent = c.sent
    BY <1>1 DEF CallType
  <2> HIDE DEF d
  <2> QED BY <1>1, <2>1, <2>2, ObsGoes
<1>6. CASE WriteFails(a)
  <2> DEFINE d == [c EXCEPT !.at = "unique", !.buf = <<>>, !.blind = FALSE,
                     !.todo = IF c.at = "rewrite" THEN <<>> ELSE @]
  <2>1. call' = [call EXCEPT ![a] = d]
    BY <1>6 DEF WriteFails, Go
  <2>2. d.op = c.op /\ d.sent = c.sent
    BY <1>1 DEF CallType
  <2> HIDE DEF d
  <2> QED BY <1>1, <2>1, <2>2, ObsGoes
<1> QED BY <1>3, <1>4, <1>5, <1>6

\* A call of another operation than /memory begins.
LEMMA ObsBegins ==
  ASSUME ObsInv, TypeInv', NEW a \in Agents, NEW t, NEW x, NEW i,
         Remember(a, t, x) \/ Update(a, i, t, x) \/ Delete(a, i)
  PROVE  ObsInv'
<1>1. ASSUME NEW c, Begin(a, c), c.op # "consolidate"
      PROVE  ObsInv'
  BY <1>1, ObsGoes DEF Begin
<1>2. CASE Remember(a, t, x)
  <2> DEFINE c == [NoCall EXCEPT !.op = "remember", !.at = "unique", !.todo = <<<<t, x>>>>]
  <2>1. c.op = "remember" /\ Begin(a, c)
    BY <1>2 DEF NoCall, Remember
  <2> HIDE DEF c
  <2> QED BY <1>1, <2>1
<1>3. ASSUME NEW op \in {"delete", "update"}, NEW new, Find(a, i, op, new)
      PROVE  ObsInv'
  <2>1. PICK U \in Unreadable :
          Begin(a, [NoCall EXCEPT !.op = op, !.at = "located", !.todo = new,
                      !.type = Locate(Read(files, U), i).type,
                      !.pos = Locate(Read(files, U), i).pos, !.named = Named(files, i),
                      !.blind = U # {}])
    BY <1>3 DEF Find
  <2> DEFINE loc == Locate(Read(files, U), i)
             c == [NoCall EXCEPT !.op = op, !.at = "located", !.todo = new,
                     !.type = loc.type, !.pos = loc.pos, !.named = Named(files, i),
                     !.blind = U # {}]
  <2>2. c.op = op
    BY DEF NoCall
  <2>3. Begin(a, c)
    BY <2>1
  <2> HIDE DEF c
  <2> QED BY <1>1, <2>2, <2>3
<1> QED BY <1>2, <1>3 DEF Update, Delete

\* The program starts, and a model answers.
LEMMA ObsMain ==
  ASSUME ObsInv, TypeInv', Start \/ (\E ms \in Answers : Answer(ms)) \/ AnswerFails
  PROVE  ObsInv'
<1>0. Main \in Agents
  BY MemoryAssumption DEF MemoryAssumption
<1>1. CASE Start
  <2> DEFINE c == [NoCall EXCEPT !.op = "migrate", !.at = "unique", !.todo = Legacy]
  <2>1. c.op = "migrate"
    BY DEF NoCall
  <2>2. call' = [call EXCEPT ![Main] = c] /\ obs' = obs /\ seen' = seen
    BY <1>1 DEF Start
  <2> HIDE DEF c
  <2> QED BY <1>0, <2>1, <2>2, ObsGoes
<1>2. ASSUME NEW ms \in Answers, Answer(ms) PROVE ObsInv'
  <2> DEFINE c == [call[Main] EXCEPT !.at = "unique",
                     !.todo = SubSeq(ms, 1, IF Len(ms) < MaxAnswer THEN Len(ms) ELSE MaxAnswer)]
  <2>1. c.op = call[Main].op /\ c.sent = call[Main].sent
    BY <1>0 DEF ObsInv, TypeInv, Calls, CallType
  <2>2. call' = [call EXCEPT ![Main] = c] /\ obs' = obs /\ seen' = seen
    BY <1>2 DEF Answer, Go, counters
  <2> HIDE DEF c
  <2> QED BY <1>0, <2>1, <2>2, ObsGoes
<1>3. CASE AnswerFails
  <2>1. NoCall.op = "none"
    BY DEF NoCall
  <2>2. call' = [call EXCEPT ![Main] = NoCall] /\ obs' = obs /\ seen' = seen
    BY <1>3 DEF AnswerFails, Go, counters
  <2> QED BY <1>0, <2>1, <2>2, ObsGoes
<1> QED BY <1>1, <1>2, <1>3

LEMMA ObsNext == ObsInv /\ [Next]_vars => ObsInv'
<1> SUFFICES ASSUME ObsInv, [Next]_vars
             PROVE  ObsInv'
  OBVIOUS
<1>0. TypeInv'
  BY NextTyped DEF ObsInv
<1>1. CASE StartFails \/ DiskFills \/ UNCHANGED vars
  <2>1. call' = call /\ obs' = obs /\ seen' = seen
    BY <1>1 DEF StartFails, DiskFills, counters, vars
  <2> QED BY <1>0, <2>1 DEF ObsInv, Asked
<1>2. CASE Exit \/ Crash
  BY <1>0, <1>2, ObsEnds
<1>3. CASE Start \/ (\E ms \in Answers : Answer(ms)) \/ AnswerFails
  BY <1>0, <1>3, ObsMain
<1>4. CASE Observe
  BY <1>0, <1>4, ObsObserve
<1>5. CASE Consolidate
  BY <1>0, <1>5, ObsConsolidate
<1>6. ASSUME NEW a \in Agents, NEW t, NEW x, NEW i,
             Remember(a, t, x) \/ Update(a, i, t, x) \/ Delete(a, i)
      PROVE  ObsInv'
  BY <1>0, <1>6, ObsBegins
<1>7. ASSUME NEW a \in Agents,
             Edit(a) \/ ReadUnique(a) \/ Write(a) \/ WriteShort(a) \/ WriteFails(a)
      PROVE  ObsInv'
  BY <1>0, <1>7, ObsCalls
<1>8. ASSUME NEW a \in Agents, Finish(a)
      PROVE  ObsInv'
  BY <1>0, <1>8, ObsFinish
<1> QED BY <1>1, <1>2, <1>3, <1>4, <1>5, <1>6, <1>7, <1>8 DEF Next, Rest

LEMMA StepKeeps ==
  ASSUME ObsInv, [Next]_vars, up', NEW k \in DOMAIN obs
  PROVE  \/ \E j \in DOMAIN obs' : obs'[j] = obs[k]
         \/ k = 1 /\ Len(obs) = MaxObs /\ Len(obs') = MaxObs
         \/ /\ call[Main].op = "consolidate" /\ call'[Main].op = "none"
            /\ call[Main].at # "asked"
            /\ \/ \E j \in DOMAIN call[Main].sent : call[Main].sent[j] = obs[k]
               \/ obs[k] > Last(call[Main].sent)
<1>1. CASE obs' = obs
  BY <1>1
<1>2. CASE Observe
  <2>1. seen + 1 \in 1..MaxSeen /\ obs' = ObsAdd(obs, seen + 1)
    BY <1>2, MemoryAssumption DEF Observe, ObsInv, TypeInv, MemoryAssumption
  <2> QED BY <2>1, ObsAddKeeps DEF ObsInv
<1>3. ASSUME NEW a \in Agents, Finish(a), obs' # obs
      PROVE  /\ call[Main].op = "consolidate" /\ call'[Main].op = "none"
             /\ call[Main].at # "asked" /\ Covered(call[Main].sent, obs[k])
  <2>1. call[a].op = "consolidate" /\ call[a].at = "unique"
    BY <1>3 DEF Finish
  <2>2. a = Main /\ Asked(call[a])
    BY <2>1 DEF ObsInv
  <2>3. call'[a] = NoCall
    BY <1>3 DEF Finish, ObsInv, TypeInv, Calls
  <2> QED BY <2>1, <2>2, <2>3 DEF NoCall, Asked
<1>4. obs' = obs \/ Observe \/ \E a \in Agents : Finish(a)
  <2>1. ~Exit /\ ~Crash
    BY DEF Exit, Crash
  <2> QED BY <2>1
          DEF Next, Rest, vars, counters, Start, StartFails, DiskFills, Remember, Update,
              Delete, Find, Begin, Edit, ReadUnique, Write, WriteShort, WriteAs, WriteFails,
              Go, Consolidate, Answer, AnswerFails
<1> QED BY <1>1, <1>2, <1>3, <1>4 DEF Covered

------------------------------------------------------------------------------
\* Where one agent has project memory, an entry leaves a type's file only in the
\* rewrite of a call that named it, and then one copy of it does, unless the disk
\* has filled up, the program is only starting, or the call could not open a file
\* (memory.c:493-549, memory.h:36).
THEOREM LeavesByName ==
  ASSUME Agents = {Main}
  PROVE  Spec => EntryLeavesByName
<1>1. Init => AloneInv
  BY AloneInit
<1>2. AloneInv /\ [Next]_vars => AloneInv'
  BY AloneNext
<1> DEFINE Leaves == full \/ Misread \/ \A t \in Types, e \in Content :
                       Copies(files'[t], e) < Copies(files[t], e) =>
                         /\ Copies(files'[t], e) = Copies(files[t], e) - 1
                         /\ \E a \in Agents : call[a].at = "rewrite" /\ call[a].named = <<t, e>>
<1>3. AloneInv /\ [Next]_vars => Leaves
  BY StepLeavesByName
<1>4. EntryLeavesByName <=> [][Leaves]_vars
  BY DEF EntryLeavesByName
<1> HIDE DEF Leaves
<1> QED BY <1>1, <1>2, <1>3, <1>4, PTL DEF Spec

\* Where one agent has project memory, appending a plain entry makes no second copy
\* of an entry (memory.c:326-341, README_en.md:253).
THEOREM NoSecond ==
  ASSUME Agents = {Main}
  PROVE  Spec => NoSecondCopy
<1>1. Init => AloneInv
  BY AloneInit
<1>2. AloneInv /\ [Next]_vars => AloneInv'
  BY AloneNext
<1> DEFINE Single == \A a \in Agents :
                       call[a].at = "append" /\ call'[a].at = "unique" /\ Plain(Last(call[a].buf)) =>
                         \A t \in Types, e \in Content :
                           Copies(files'[t], e) <= 1 \/ Copies(files'[t], e) <= Copies(files[t], e)
<1>3. AloneInv /\ [Next]_vars => Single
  BY StepMakesNoSecond, MainOnly
<1>4. NoSecondCopy <=> [][Single]_vars
  BY DEF NoSecondCopy
<1> HIDE DEF Single
<1> QED BY <1>1, <1>2, <1>3, <1>4, PTL DEF Spec

\* However many agents observe, and whatever /memory is at, an observation leaves the
\* buffer only as the oldest of a full one, or at the end of a consolidation that was
\* answered and whose prompt held it, unless it came after the prompt
\* (memory.c:639-694).
THEOREM KeepsObservations == Spec => ObservationsKept
<1>1. Init => ObsInv
  BY ObsInit
<1>2. ObsInv /\ [Next]_vars => ObsInv'
  BY ObsNext
<1> DEFINE Kept == up' => \A k \in DOMAIN obs :
                     \/ \E j \in DOMAIN obs' : obs'[j] = obs[k]
                     \/ k = 1 /\ Len(obs) = MaxObs /\ Len(obs') = MaxObs
                     \/ /\ call[Main].op = "consolidate" /\ call'[Main].op = "none"
                        /\ call[Main].at # "asked"
                        /\ \/ \E j \in DOMAIN call[Main].sent : call[Main].sent[j] = obs[k]
                           \/ obs[k] > Last(call[Main].sent)
<1>3. ObsInv /\ [Next]_vars => Kept
  BY StepKeeps
<1>4. ObservationsKept <=> [][Kept]_vars
  BY DEF ObservationsKept
<1> HIDE DEF Kept
<1> QED BY <1>1, <1>2, <1>3, <1>4, PTL DEF Spec
==============================================================================
