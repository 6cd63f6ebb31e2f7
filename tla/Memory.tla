-------------------------------- MODULE Memory --------------------------------
(***************************************************************************)
(* Project memory (core/memory.c and the tools of tools/memory_tool.c):    *)
(* one file of entries per type on disk, and the buffer of observations    *)
(* waiting for /memory.                                                    *)
(*                                                                         *)
(* Every call reads a whole file, edits its copy and writes the whole file *)
(* back; nothing is locked, so each read and each write is a step.  The    *)
(* main agent and its subagents call the tools, each at most one at a      *)
(* time; only the main thread starts, consolidates and exits.  A file that *)
(* cannot be opened for reading counts as empty.                           *)
(***************************************************************************)
EXTENDS Integers, Sequences, FiniteSets, SequencesExt

CONSTANTS
  NTypes,      \* TYPE_COUNT; the types in the order of TYPE_INFO
  Content,     \* what can be remembered
  Lines,       \* Lines[c]: the entries c reads back as, one per "- " line
  Legacy,      \* the <<type, content>> lines of .agent/memory.md
  Answers,     \* memories a consolidating model may return
  MaxAnswer,   \* how many of them are used (5)
  Agents,      \* threads that call the memory tools
  Main,        \* the main thread
  MaxObs,      \* MEMORY_OBS_MAX
  MaxOps,      \* bound: calls made
  MaxSeen,     \* bound: observations made
  MaxStarts,   \* bound: times the program is started
  DiskFails,   \* fopen (to read or write) or rename may fail, and the disk fill up
  Crashes      \* the process may be killed

Types == 1..NTypes
Plain(c) == Lines[c] = <<c>>

ASSUME MemoryAssumption ==
  /\ NTypes \in Nat \ {0} /\ MaxAnswer \in Nat /\ MaxObs \in Nat \ {0}
  /\ {MaxOps, MaxSeen, MaxStarts} \subseteq Nat
  /\ Lines \in [Content -> Seq(Content)]
  /\ \A c \in Content : \A i \in DOMAIN Lines[c] : Plain(Lines[c][i])
  /\ Legacy \in Seq(Types \X Content)
  /\ Answers \subseteq Seq(Types \X Content)
  /\ Main \in Agents
  /\ {DiskFails, Crashes} \subseteq BOOLEAN

VARIABLES
  files,   \* files[t]: the entries of <type>.md, as they would be read
  obs,     \* obs_buf[0..obs_count), oldest first
  call,    \* call[a]: the call in progress
  up,      \* the program runs
  full,    \* the disk has filled up
  ops, seen, starts   \* calls, observations and starts so far

counters == <<ops, seen, starts>>
vars == <<files, obs, call, up, full, counters>>

(***************************************************************************)
(* A call.  todo: what is still to be appended; type, buf: the file being  *)
(* edited and the copy to be written; pos: where the index was found;      *)
(* named: the entry recall shows under that index; sent: the observations  *)
(* put into the consolidator's prompt; blind: a file the call relies on    *)
(* was not read.                                                           *)
(***************************************************************************)
At == {"idle", "unique", "append", "located", "rewrite", "asked"}
Op == {"none", "migrate", "remember", "delete", "update", "consolidate"}
NoCall == [op |-> "none", at |-> "idle", type |-> 1, pos |-> 0, buf |-> <<>>,
           todo |-> <<>>, named |-> <<>>, sent |-> <<>>, blind |-> FALSE]

(***************************************************************************)
(* Faults, each in place of the operator its comment names.                *)
(***************************************************************************)

\* AnswerFails, if the buffer were cleared on every way out of /memory.
FailClears ==
  /\ call[Main].at = "asked"
  /\ call' = [call EXCEPT ![Main] = NoCall]
  /\ obs' = <<>>
  /\ UNCHANGED <<files, up, full, counters>>

\* Skipped, if filtered types were not counted.
SkipsNothing(f, t) == 0

\* Without, one position too far.
WithoutNext(es, k) == IF k < Len(es) THEN RemoveAt(es, k + 1) ELSE RemoveAt(es, k)

\* Present, comparing with the newest entry only.
PresentLast(es, c) == es # <<>> /\ Last(es) = c
------------------------------------------------------------------------------
\* obs_add: the oldest of a full buffer is dropped.
ObsAdd(buf, e) ==
  IF Len(buf) >= MaxObs THEN Append(Tail(buf), e) ELSE Append(buf, e)

\* What read_file_text gives of files f if those of the types U cannot be opened.
Unreadable == IF DiskFails THEN SUBSET Types ELSE {{}}
Read(f, U) == [t \in Types |-> IF t \in U THEN <<>> ELSE f[t]]

\* What read_entries_for_type finds after write_entries_for_type(es).
ReadBack(es) == FlattenSeq([k \in DOMAIN es |-> Lines[es[k]]])

\* The strcmp loop of append_entry_unique.
Present(es, c) == \E k \in DOMAIN es : es[k] = c

\* entries[local] is taken out and those behind it move up.
Without(es, k) == RemoveAt(es, k)

\* find_index_location: the first type whose entries reach beyond the index.
Before(f) ==
  LET n[t \in 1..(NTypes + 1)] == IF t = 1 THEN 0 ELSE n[t-1] + Len(f[t-1])
  IN  n
Indices(f) == 0..(Before(f)[NTypes + 1] - 1)
Locate(f, i) ==
  LET reach == {t \in Types : i < Before(f)[t] + Len(f[t])}
      type  == CHOOSE t \in reach : \A u \in reach : t <= u
  IN  [type |-> type, pos |-> i - Before(f)[type] + 1]

\* A type the filter leaves out still counts its entries.
Skipped(f, t) == Len(f[t])

\* memory_recall_filtered: <<index, type, position>> of each entry shown, for
\* the type asked for, or 0 for all.  A keyword only hides some of them.
Shown(f, only) ==
  LET wanted(t) == only \in {0, t}
      start[t \in Types] ==
        IF t = 1 THEN 0
        ELSE start[t-1] + (IF wanted(t-1) THEN Len(f[t-1]) ELSE Skipped(f, t-1))
  IN  UNION {{<<start[t] + k - 1, t, k>> : k \in DOMAIN f[t]} : t \in {u \in Types : wanted(u)}}

\* The entry an unfiltered recall shows under index i.
Named(f, i) ==
  LET s == CHOOSE s \in Shown(f, 0) : s[1] = i IN <<s[2], f[s[2]][s[3]]>>
------------------------------------------------------------------------------
Init ==
  /\ files = [t \in Types |-> <<>>]
  /\ obs = <<>>
  /\ call = [a \in Agents |-> NoCall]
  /\ up = FALSE /\ full = FALSE
  /\ ops = 0 /\ seen = 0 /\ starts = 0

\* The agent's thread is in no memory call; the others run once main has started.
Free(a) ==
  /\ up
  /\ call[a].at = "idle"
  /\ a # Main => call[Main].op # "migrate"

Begin(a, c) ==
  /\ Free(a) /\ ops < MaxOps
  /\ ops' = ops + 1
  /\ call' = [call EXCEPT ![a] = c]
  /\ UNCHANGED <<files, obs, up, full, seen, starts>>

Go(a, c) ==
  /\ call' = [call EXCEPT ![a] = c]
  /\ UNCHANGED <<files, obs, up, full, counters>>

\* ensure_type_file takes a file it cannot open for a missing one, and renames a
\* new one over it.
EnsureFiles == \E U \in Unreadable : files' = Read(files, U)

\* memory_init: the files are there, then the legacy lines are remembered.
Start ==
  /\ ~up /\ starts < MaxStarts
  /\ up' = TRUE
  /\ starts' = starts + 1
  /\ EnsureFiles
  /\ call' = [call EXCEPT ![Main] =
                [NoCall EXCEPT !.op = "migrate", !.at = "unique", !.todo = Legacy]]
  /\ UNCHANGED <<obs, full, ops, seen>>

\* memory_init gives up at a file it cannot make, or there is no legacy file to be
\* opened; main does not look.
StartFails ==
  /\ DiskFails /\ ~up /\ starts < MaxStarts
  /\ up' = TRUE
  /\ starts' = starts + 1
  /\ EnsureFiles
  /\ UNCHANGED <<obs, call, full, ops, seen>>

Remember(a, t, c) ==
  Begin(a, [NoCall EXCEPT !.op = "remember", !.at = "unique", !.todo = <<<<t, c>>>>])

\* find_index_location of an index that a recall shows; in what it reads of the
\* files the index may be out of range, which is -1 and changes nothing.
Find(a, i, op, new) ==
  \E U \in Unreadable :
    LET f   == Read(files, U)
        loc == Locate(f, i)
    IN  /\ i \in Indices(f)
        /\ Begin(a, [NoCall EXCEPT !.op = op, !.at = "located", !.todo = new,
                       !.type = loc.type, !.pos = loc.pos, !.named = Named(files, i),
                       !.blind = U # {}])

Delete(a, i) == Find(a, i, "delete", <<>>)
Update(a, i, t, c) == Find(a, i, "update", <<<<t, c>>>>)

\* memory_delete and memory_update read the file again and edit their copy, unless
\* it has too few entries or is not read.
Edit(a) ==
  LET c  == call[a]
      es == files[c.type]
  IN  /\ c.at = "located"
      /\ \/ (c.pos > Len(es) \/ DiskFails) /\ Go(a, NoCall)
         \/ /\ c.pos <= Len(es)
            /\ IF c.op = "update" /\ c.todo[1][1] = c.type
               THEN Go(a, [c EXCEPT !.at = "rewrite", !.todo = <<>>,
                             !.buf = ReplaceAt(es, c.pos, c.todo[1][2])])
               ELSE Go(a, [c EXCEPT !.at = "rewrite", !.buf = Without(es, c.pos)])

\* append_entry_unique reads the file: the content is there, or is to be added to
\* what was read.
ReadUnique(a) ==
  LET c == call[a]
      t == c.todo[1][1]
      x == c.todo[1][2]
  IN  /\ c.at = "unique" /\ c.todo # <<>>
      /\ \/ Present(files[t], x) /\ Go(a, [c EXCEPT !.todo = Tail(@)])
         \/ /\ ~Present(files[t], x)
            /\ Go(a, [c EXCEPT !.todo = Tail(@), !.at = "append", !.type = t,
                         !.buf = Append(files[t], x)])
         \/ /\ DiskFails
            /\ Go(a, [c EXCEPT !.todo = Tail(@), !.at = "append", !.type = t,
                         !.buf = <<x>>, !.blind = TRUE])

\* The copy is renamed over the file; es is what the file then holds.
WriteAs(a, es) ==
  /\ call[a].at \in {"rewrite", "append"}
  /\ files' = [files EXCEPT ![call[a].type] = es]
  /\ call' = [call EXCEPT ![a].at = "unique", ![a].buf = <<>>, ![a].blind = FALSE]
  /\ UNCHANGED <<obs, up, full, counters>>

Write(a) == WriteAs(a, ReadBack(call[a].buf))

\* fwrite is not looked at: on a full disk a shorter copy is renamed.
WriteShort(a) ==
  /\ full
  /\ \E n \in 0..(Len(ReadBack(call[a].buf)) - 1) :
       WriteAs(a, SubSeq(ReadBack(call[a].buf), 1, n))

\* fopen or rename fails: an update stops here, migration and /memory go on.
WriteFails(a) ==
  /\ DiskFails
  /\ call[a].at \in {"rewrite", "append"}
  /\ Go(a, [call[a] EXCEPT !.at = "unique", !.buf = <<>>, !.blind = FALSE,
              !.todo = IF call[a].at = "rewrite" THEN <<>> ELSE @])

\* The call returns; a consolidation ends with obs_clear().
Finish(a) ==
  /\ call[a].at = "unique" /\ call[a].todo = <<>>
  /\ obs' = IF call[a].op = "consolidate" THEN <<>> ELSE obs
  /\ call' = [call EXCEPT ![a] = NoCall]
  /\ UNCHANGED <<files, up, full, counters>>

\* /memory: the observations so far go into the prompt.
Consolidate ==
  /\ obs # <<>>
  /\ Begin(Main, [NoCall EXCEPT !.op = "consolidate", !.at = "asked", !.sent = obs])

\* The model's JSON: its first MaxAnswer memories are remembered.
Answer(ms) ==
  /\ call[Main].at = "asked"
  /\ Go(Main, [call[Main] EXCEPT !.at = "unique",
                 !.todo = SubSeq(ms, 1, IF Len(ms) < MaxAnswer THEN Len(ms) ELSE MaxAnswer)])

\* llm_chat fails, or the answer holds tool calls or no JSON.
AnswerFails == call[Main].at = "asked" /\ Go(Main, NoCall)

\* memory_observe after a tool call of any agent: a subagent's comes whatever the
\* main thread is at, /memory included.
Observe ==
  /\ up /\ call[Main].op # "migrate" /\ seen < MaxSeen
  /\ seen' = seen + 1
  /\ obs' = ObsAdd(obs, seen + 1)
  /\ UNCHANGED <<files, call, up, full, ops, starts>>

\* main: the subagents are joined, then memory_shutdown.
Exit ==
  /\ \A a \in Agents : Free(a)
  /\ up' = FALSE
  /\ obs' = <<>>
  /\ UNCHANGED <<files, call, full, counters>>

Crash ==
  /\ Crashes /\ up
  /\ up' = FALSE
  /\ obs' = <<>>
  /\ call' = [a \in Agents |-> NoCall]
  /\ UNCHANGED <<files, full, counters>>

DiskFills ==
  /\ DiskFails /\ ~full
  /\ full' = TRUE
  /\ UNCHANGED <<files, obs, call, up, counters>>

\* The program has ended and the bound allows no further start.
Rest == ~up /\ starts = MaxStarts /\ UNCHANGED vars

Next ==
  \/ Start \/ StartFails \/ Exit \/ Crash \/ DiskFills \/ Rest
  \/ \E a \in Agents :
       \/ \E t \in Types, c \in Content :
            \/ Remember(a, t, c)
            \/ \E i \in Indices(files) : Update(a, i, t, c)
       \/ \E i \in Indices(files) : Delete(a, i)
       \/ Edit(a) \/ ReadUnique(a)
       \/ Write(a) \/ WriteShort(a) \/ WriteFails(a)
       \/ Finish(a)
  \/ Observe \/ Consolidate
  \/ \E ms \in Answers : Answer(ms)
  \/ AnswerFails

Spec == Init /\ [][Next]_vars
------------------------------------------------------------------------------
\* The files hold entries as a read gives them, the buffer no more than
\* MEMORY_OBS_MAX (memory.h:16), a call that is under way an operation, and no call is
\* under way when the program is down.
TypeOK ==
  /\ files \in [Types -> Seq(Content)]
  /\ \A t \in Types : \A k \in DOMAIN files[t] : Plain(files[t][k])
  /\ obs \in Seq(1..MaxSeen) /\ Len(obs) <= MaxObs
  /\ \A a \in Agents :
       /\ DOMAIN call[a] = DOMAIN NoCall
       /\ call[a].op \in Op /\ call[a].at \in At /\ call[a].type \in Types
       /\ call[a].at = "idle" <=> call[a].op = "none"
       /\ call[a].buf \in Seq(Content) /\ call[a].todo \in Seq(Types \X Content)
       /\ call[a].blind \in BOOLEAN /\ call[a].at # "idle" => up
  /\ {up, full} \subseteq BOOLEAN
  /\ ops \in 0..MaxOps /\ seen \in 0..MaxSeen /\ starts \in 0..MaxStarts

\* An index that any recall shows, filtered or not, is the index under which
\* delete and update find that very entry; files, buffer and calls keep their types
\* (memory.c:426-491).
RecallNamesEntries ==
  /\ TypeOK
  /\ \A only \in 0..NTypes : \A s \in Shown(files, only) :
       Locate(files, s[1]) = [type |-> s[2], pos |-> s[3]]

Copies(es, e) == Cardinality({k \in DOMAIN es : es[k] = e})

\* The start, or a call that goes on from a file it could not open (memory.c:230-238,
\* 266-268).
Misread == ~up \/ \E a \in Agents : call[a].blind

\* While the program runs, an entry goes away only one at a time and only by a delete
\* or update whose index named it, as long as the disk has room and the call could
\* open every file it read (memory.c:493-549): appending loses nothing (memory.h:36).
EntryLeavesByName ==
  [][full \/ Misread \/ \A t \in Types, e \in Content :
       Copies(files'[t], e) < Copies(files[t], e) =>
         /\ Copies(files'[t], e) = Copies(files[t], e) - 1
         /\ \E a \in Agents : call[a].at = "rewrite" /\ call[a].named = <<t, e>>]_vars

\* Remembering a one-line content never makes a second copy of an entry, whether
\* a tool, a migration repeated at each start or a consolidation does it
\* (memory.c:326-341, README_en.md:253).
NoSecondCopy ==
  [][\A a \in Agents :
       call[a].at = "append" /\ call'[a].at = "unique" /\ Plain(Last(call[a].buf)) =>
         \A t \in Types, e \in Content :
           Copies(files'[t], e) <= 1 \/ Copies(files'[t], e) <= Copies(files[t], e)]_vars

\* While the program runs, an observation is dropped only as the oldest of a
\* full buffer, or by a consolidation that was answered, and of those that were
\* made before it asked only what its prompt held; the ones that a subagent makes
\* while it waits go with them (memory.c:639-694).
ObservationsKept ==
  [][up' => \A k \in DOMAIN obs :
       \/ \E j \in DOMAIN obs' : obs'[j] = obs[k]
       \/ k = 1 /\ Len(obs) = MaxObs /\ Len(obs') = MaxObs
       \/ /\ call[Main].op = "consolidate" /\ call'[Main].op = "none"
          /\ call[Main].at # "asked"
          /\ \/ \E j \in DOMAIN call[Main].sent : call[Main].sent[j] = obs[k]
             \/ obs[k] > Last(call[Main].sent)]_vars
=============================================================================
