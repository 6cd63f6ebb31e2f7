------------------------------- MODULE Session -------------------------------
(***************************************************************************)
(* The session store (core/session.c) under the loop of main.c that drives *)
(* it: what is on disk, what is in memory, and what a crash leaves.        *)
(*                                                                         *)
(* A message is a number, given in the order messages are made.  A line of *)
(* log.jsonl is a message, Torn (a last line cut short, no newline), or    *)
(* Junk (a torn line with the next message run on to it).  agent_chat is   *)
(* reduced to what it does to the history.  The steps are those a crash    *)
(* can fall between: log flushed, meta written, checkpoint renamed, log    *)
(* truncated.  meta.json itself, which no restore of messages reads, is    *)
(* left out.  No write looks at what fwrite, fprintf or fclose returns.    *)
(***************************************************************************)
EXTENDS Integers, Sequences, SequencesExt

CONSTANTS
  CheckpointEvery, \* CHECKPOINT_EVERY
  KeepRecent,      \* messages a summary keeps
  Growth,          \* messages one chat may add
  MaxIds,          \* bound: seconds in which sessions are made
  MaxMsgs,         \* bound: messages made
  Long,            \* messages whose line is longer than what a restore reads of one
  Switches,        \* the user gives /session commands
  Crashes,         \* the process may be killed
  MaxFails,        \* bound: opens, mkdirs and renames that fail, writes cut short
  Summarises       \* the context may be summarised

ASSUME SessionAssumption ==
  /\ {CheckpointEvery, KeepRecent, MaxIds} \subseteq Nat \ {0}
  /\ Growth \subseteq Nat \ {0} /\ MaxMsgs \in Nat /\ MaxFails \in Nat
  /\ Long \subseteq Nat
  /\ {Switches, Crashes, Summarises} \subseteq BOOLEAN

VARIABLES
  disk,     \* disk[i]: the directory of session i and its two files of messages
  current,  \* current_session_id
  history,  \* the messages of the agent's context
  since,    \* new_since_checkpoint
  prev,     \* main's prev_count
  pc,       \* what the process does next, and what for
  clock,    \* the second in which a session was last made
  made,     \* messages made so far
  saved,    \* saved[i]: messages session_append has logged for session i
  upset,    \* what has come between so far, of Upsets
  fails     \* operations on files that have failed so far

vars == <<disk, current, history, since, prev, pc, clock, made, saved, upset, fails>>

\* A session was entered by a command, the context summarised, an open, a rename or
\* a write to the log failed, a checkpoint was cut short, a file not read.
Upsets == {"command", "summary", "failed", "short", "unread"}
smooth == upset = {}
Upset(why) == upset' = upset \cup {why}
Failing == fails < MaxFails /\ fails' = fails + 1

Id   == 1..MaxIds
NoId == 0
Msg  == 1..MaxMsgs
Torn == 0
Junk == -1
Absent == [there |-> FALSE, ckpt |-> <<>>, log |-> <<>>]
\* What a step is part of: session_append, session_new, the way out, or else
\* session_restore of the session whose id it is.
ToAppend == -1
ToNew  == -2
ToExit == 0
Goals == {ToAppend, ToNew, ToExit} \cup Id
Points == {"off", "prompt", "replied", "logged", "save", "saved", "leave"}

Count == Len(history)
At(p) == pc.at = p
Go(p, g) == pc' = [at |-> p, goal |-> g]

\* There is a directory to write to.
Homed == current # NoId /\ disk[current].there

\* fopen "w" of the log.
Emptied(f) == [f EXCEPT !.log = <<>>]
------------------------------------------------------------------------------
(***************************************************************************)
(* Faults, each standing in for the operator named in its comment.         *)
(***************************************************************************)
\* AfterRename, if the log were truncated whatever atomic_write returned.
TruncateAnyway(ok) == "saved"

\* CheckpointWrite, with the log truncated first.
TruncateFirst ==
  /\ At("save")
  /\ disk' = [disk EXCEPT ![current] = Emptied(@)]
  /\ Go("saved", pc.goal)
  /\ UNCHANGED <<current, history, since, prev, clock, made, saved, upset, fails>>

\* Logged, if the whole history were logged each turn.
LogAll(from) == history

\* CheckpointDue, with the bound one too high.
DueLater(n) == n > CheckpointEvery

------------------------------------------------------------------------------
(***************************************************************************)
(* Files.                                                                  *)
(***************************************************************************)
\* The messages among the lines of a log: what does not parse is skipped, and so
\* are the pieces in which a line comes that is longer than the buffer.
Readable(log) ==
  LET upTo[k \in 0..Len(log)] ==
        IF k = 0 THEN <<>>
        ELSE IF log[k] \in Msg \ Long THEN Append(upTo[k - 1], log[k]) ELSE upTo[k - 1]
  IN  upTo[Len(log)]

\* What load_session_into_agent reads.  The checkpoint, whole or nothing, is read
\* in one piece.
Recover(f) == f.ckpt \o Readable(f.log)

Ragged(log) == log # <<>> /\ Last(log) = Torn

\* fopen "a" and one fprintf for each message.
Written(log, ms) ==
  IF Ragged(log) /\ ms # <<>> THEN Front(log) \o <<Junk>> \o Tail(ms)
  ELSE log \o ms

\* The same, ended after k messages and perhaps in the middle of the next.
Cut(log, ms, k, mid) ==
  LET whole == Written(log, SubSeq(ms, 1, k))
  IN  IF mid /\ ~Ragged(whole) THEN Append(whole, Torn) ELSE whole

\* The messages from index `from' on (from counts from 0).
Logged(from) == SubSeq(history, from + 1, Count)

CheckpointDue(n) == n >= CheckpointEvery

AfterRename(ok) == IF ok THEN "saved" ELSE "leave"

Removable(i) == disk[i].there /\ i # current

\* A session being left is checkpointed, or removed if it has no messages.
Leaving(g) ==
  IF current = NoId THEN Go("leave", g) /\ UNCHANGED disk
  ELSE IF Count > 0 THEN Go("save", g) /\ UNCHANGED disk
  ELSE Go("leave", g) /\ disk' = [disk EXCEPT ![current] = Absent]
------------------------------------------------------------------------------
Init ==
  /\ disk = [i \in Id |-> Absent]
  /\ current = NoId /\ history = <<>> /\ since = 0 /\ prev = 0
  /\ pc = [at |-> "off", goal |-> ToExit]
  /\ clock = 0 /\ made = 0
  /\ saved = [i \in Id |-> {}] /\ upset = {} /\ fails = 0

\* main starts: session_new, with no session to leave.
Start ==
  /\ At("off") /\ clock < MaxIds
  /\ Go("leave", ToNew)
  /\ UNCHANGED <<disk, current, history, since, prev, clock, made, saved, upset, fails>>

\* The n messages of a chat that begins with the history h.
Fresh(n) == [k \in 1..n |-> made + k]

\* agent_chat returns a reply; n messages are new.
Chat(n) ==
  /\ At("prompt") /\ made + n <= MaxMsgs
  /\ history' = history \o Fresh(n)
  /\ made' = made + n
  /\ Go("replied", ToAppend)
  /\ UNCHANGED <<disk, current, since, prev, clock, saved, upset, fails>>

\* The same, the context having been summarised when the first message was in.
ChatSummarised(n) ==
  LET pushed == Append(history, made + 1)
      recent == SubSeq(pushed, Len(pushed) - KeepRecent + 1, Len(pushed))
  IN  /\ Summarises
      /\ At("prompt") /\ made + n + 1 <= MaxMsgs /\ Len(pushed) > KeepRecent
      /\ history' = <<made + n + 1>> \o recent \o Tail(Fresh(n))
      /\ made' = made + n + 1
      /\ Go("replied", ToAppend)
      /\ Upset("summary")
      /\ UNCHANGED <<disk, current, since, prev, clock, saved, fails>>

\* agent_chat fails: the messages it pushed stay, main appends nothing.
ChatFails(n) ==
  /\ At("prompt") /\ made + n <= MaxMsgs
  /\ history' = history \o Fresh(n)
  /\ made' = made + n
  /\ UNCHANGED <<disk, current, since, prev, pc, clock, saved, upset, fails>>

\* session_append returns 0 at once; main takes the count all the same.
AppendNothing ==
  /\ At("replied") /\ Count <= prev
  /\ prev' = Count
  /\ Go("prompt", ToAppend)
  /\ UNCHANGED <<disk, current, history, since, clock, made, saved, upset, fails>>

\* There is no session, or its log does not open; main says so, and takes the
\* count all the same.
AppendFails ==
  /\ Failing \/ (~Homed /\ UNCHANGED fails)
  /\ At("replied") /\ Count > prev
  /\ prev' = Count
  /\ Go("prompt", ToAppend)
  /\ Upset("failed")
  /\ UNCHANGED <<disk, current, history, since, clock, made, saved>>

\* The messages that then have a line of their own count as logged.
LogGets(log) ==
  /\ disk' = [disk EXCEPT ![current].log = log]
  /\ saved' = [saved EXCEPT ![current] = @ \cup (Range(Logged(prev)) \cap Range(log))]
  /\ Go("logged", ToAppend)
  /\ UNCHANGED <<current, history, since, prev, clock, made>>

AppendLog ==
  /\ Homed
  /\ At("replied") /\ Count > prev
  /\ LogGets(Written(disk[current].log, Logged(prev)))
  /\ UNCHANGED <<upset, fails>>

\* The disk is full; session_append does not see it.
AppendShort ==
  /\ Failing /\ Homed
  /\ At("replied") /\ Count > prev
  /\ \E k \in 0..(Count - prev - 1), mid \in BOOLEAN :
       LogGets(Cut(disk[current].log, Logged(prev), k, mid))
  /\ Upset("failed")

\* Meta, the counter, and the checkpoint if it is due; if not, back in main.
AppendMeta ==
  LET n == since + (Count - prev)
  IN  /\ At("logged")
      /\ since' = n
      /\ IF CheckpointDue(n) THEN Go("save", ToAppend) /\ UNCHANGED prev
         ELSE Go("prompt", ToAppend) /\ prev' = Count
      /\ UNCHANGED <<disk, current, history, clock, made, saved, upset, fails>>

\* session_checkpoint: atomic_write of the whole history.
CheckpointWrite ==
  /\ At("save") /\ Homed
  /\ disk' = [disk EXCEPT ![current].ckpt = history]
  /\ Go(AfterRename(TRUE), pc.goal)
  /\ UNCHANGED <<current, history, since, prev, clock, made, saved, upset, fails>>

\* The disk is full: the temporary file is short, does not parse, and is renamed.
CheckpointShort ==
  /\ Failing
  /\ At("save") /\ Homed
  /\ disk' = [disk EXCEPT ![current].ckpt = <<>>]
  /\ Go(AfterRename(TRUE), pc.goal)
  /\ Upset("short")
  /\ UNCHANGED <<current, history, since, prev, clock, made, saved>>

\* The temporary file does not open, or is not renamed.
CheckpointFails ==
  /\ Failing \/ (~Homed /\ UNCHANGED fails)
  /\ At("save")
  /\ since' = 0
  /\ Go(AfterRename(FALSE), pc.goal)
  /\ Upset("failed")
  /\ UNCHANGED <<disk, current, history, prev, clock, made, saved>>

CheckpointTruncate ==
  /\ At("saved")
  /\ disk' = [disk EXCEPT ![current] = Emptied(@)]
  /\ since' = 0
  /\ Go("leave", pc.goal)
  /\ UNCHANGED <<current, history, prev, clock, made, saved, upset, fails>>

\* The log does not open, and stays as it is.
TruncateFails ==
  /\ Failing
  /\ At("saved")
  /\ since' = 0
  /\ Go("leave", pc.goal)
  /\ Upset("failed")
  /\ UNCHANGED <<disk, current, history, prev, clock, made, saved>>

\* session_append returns to main after its checkpoint.
AppendReturns ==
  /\ At("leave") /\ pc.goal = ToAppend
  /\ prev' = Count
  /\ Go("prompt", ToAppend)
  /\ UNCHANGED <<disk, current, history, since, clock, made, saved, upset, fails>>

\* session_new, the old session dealt with, in a second of its own; main takes
\* the count only at start, when it is 0.
Create ==
  /\ At("leave") /\ pc.goal = ToNew
  /\ clock' = clock + 1 /\ current' = clock'
  /\ disk' = [disk EXCEPT ![clock'] = [Absent EXCEPT !.there = TRUE]]
  /\ saved' = [saved EXCEPT ![clock'] = {}]
  /\ history' = <<>> /\ since' = 0
  /\ IF current = NoId THEN UNCHANGED upset ELSE Upset("command")
  /\ Go("prompt", ToAppend)
  /\ UNCHANGED <<prev, made, fails>>

\* The directory cannot be made: the old session, dealt with as it was, goes on;
\* at start main goes on without one.
CreateFails ==
  /\ Failing
  /\ At("leave") /\ pc.goal = ToNew
  /\ Upset("failed")
  /\ Go("prompt", ToAppend)
  /\ UNCHANGED <<disk, current, history, since, prev, clock, made, saved>>

\* session_restore, the old session dealt with, has read the messages h.
Loads(h) ==
  /\ At("leave") /\ pc.goal \in Id
  /\ history' = h
  /\ current' = pc.goal
  /\ since' = 0
  /\ Go("prompt", ToAppend)
  /\ UNCHANGED <<disk, prev, clock, made, saved>>

Load ==
  /\ Loads(Recover(disk[pc.goal]))
  /\ Upset("command")
  /\ UNCHANGED fails

\* A file that does not open is read as none.
LoadUnread ==
  /\ Failing /\ pc.goal \in Id
  /\ \E h \in {<<>>, disk[pc.goal].ckpt, Readable(disk[pc.goal].log)} : Loads(h)
  /\ Upset("unread")

\* main returns after session_shutdown.
Exit ==
  /\ At("leave") /\ pc.goal = ToExit
  /\ Go("off", ToExit)
  /\ current' = NoId /\ history' = <<>> /\ since' = 0 /\ prev' = 0
  /\ UNCHANGED <<disk, clock, made, saved, upset, fails>>

\* exit, /session new, /session restore i.
Leave(g) ==
  /\ At("prompt")
  /\ g # ToExit => Switches
  /\ g = ToNew => clock < MaxIds
  /\ g \in Id => g # current /\ disk[g].there
  /\ Leaving(g)
  /\ UNCHANGED <<current, history, since, prev, clock, made, saved, upset, fails>>

\* /session delete i.
Delete(i) ==
  /\ Switches
  /\ At("prompt") /\ Removable(i)
  /\ disk' = [disk EXCEPT ![i] = Absent]
  /\ saved' = [saved EXCEPT ![i] = {}]
  /\ UNCHANGED <<current, history, since, prev, pc, clock, made, upset, fails>>

Forget ==
  /\ Go("off", ToExit)
  /\ current' = NoId /\ history' = <<>> /\ since' = 0 /\ prev' = 0
  /\ UNCHANGED <<clock, made, saved, upset, fails>>

\* The process is killed between two steps.
Crash ==
  /\ Crashes /\ ~At("off")
  /\ Forget /\ UNCHANGED disk

\* The process is killed while session_append writes the log.
CrashWriting ==
  /\ Crashes /\ Homed
  /\ At("replied") /\ Count > prev
  /\ \E k \in 0..(Count - prev - 1), mid \in BOOLEAN :
       disk' = [disk EXCEPT ![current].log = Cut(@, Logged(prev), k, mid)]
  /\ Forget

\* Nothing is left to do within the bounds.
Rest == At("off") /\ clock = MaxIds /\ UNCHANGED vars

Next ==
  \/ Start
  \/ \E n \in Growth : Chat(n) \/ ChatSummarised(n)
  \/ \E n \in Growth \cup {1} : ChatFails(n)
  \/ AppendNothing \/ AppendFails \/ AppendLog \/ AppendShort \/ AppendMeta
  \/ CheckpointWrite \/ CheckpointShort \/ CheckpointFails
  \/ CheckpointTruncate \/ TruncateFails \/ AppendReturns
  \/ Create \/ CreateFails \/ Load \/ LoadUnread \/ Exit
  \/ \E g \in Goals \ {ToAppend} : Leave(g)
  \/ \E i \in Id : Delete(i)
  \/ Crash \/ CrashWriting
  \/ Rest

Spec == Init /\ [][Next]_vars
------------------------------------------------------------------------------
(***************************************************************************)
(* Properties.                                                             *)
(***************************************************************************)
Files == [there : BOOLEAN, ckpt : Seq(Msg), log : Seq(Msg \cup {Torn, Junk})]

\* The state of the store and of main stays within its types; while no write has
\* failed a session is active whenever main is past its start.
TypeOK ==
  /\ disk \in [Id -> Files]
  /\ current \in Id \cup {NoId}
  /\ history \in Seq(Msg)
  /\ since \in Nat /\ prev \in Nat
  /\ pc \in [at : Points, goal : Goals]
  /\ clock \in Nat /\ made \in 0..MaxMsgs
  /\ saved \in [Id -> SUBSET Msg]
  /\ upset \subseteq Upsets /\ fails \in Nat
  /\ smooth /\ ~At("off") /\ ~At("leave") => Homed

\* session_append returns: it was called with history as it is.
Appended == pc.goal = ToAppend /\ pc.at # "prompt" /\ pc'.at = "prompt"

\* "Messages are appended to log.jsonl after each turn": when session_append
\* has returned, a restore would read back the agent's history (session.c:490,
\* main.c:66).
TurnLogged == [][Appended => Recover(disk'[current]) = history]_vars

\* The same as long as no session was entered by a command, nothing summarised
\* and no write failed: a restore would read back the history in its order, and
\* of messages too long for its buffer (session.c:268) miss no more than these.
FirstSessionLogged ==
  [][smooth' /\ Appended => Readable(Recover(disk'[current])) = Readable(history)]_vars

\* As long as nothing was summarised, no checkpoint was cut short and every restore
\* could read its files, what session_append has put on a line of the log, and fits
\* the buffer, is on disk for every later restore: through switches to other
\* sessions and back, failing appends, renames and truncations, wherever the process
\* is killed and however often (session.c:570 truncates the log only after the
\* rename).  All stays within its types.
LoggedKept ==
  /\ TypeOK
  /\ upset \cap {"summary", "short", "unread"} = {} =>
       \A i \in Id : saved[i] \ Long \subseteq Range(Recover(disk[i]))

\* "Every 10 messages, a checkpoint is written and the log is truncated": while
\* no session was entered by a command, nothing summarised and no write failed, at
\* the prompt the log is shorter than CHECKPOINT_EVERY (session.c:540).
LogBounded == smooth /\ At("prompt") => Len(disk[current].log) < CheckpointEvery

\* Unless a checkpoint has been cut short, no step of the store but /session delete
\* loses what can be restored: of the active session a message still in the history
\* stays on disk, through failing opens and renames, cut logs and crashes; of
\* another session nothing changes, but that it is removed whole (session.c:43, 570,
\* 658).
KeptUntilDeleted ==
  [][ "short" \notin upset' =>
       \A i \in Id : disk[i].there /\ disk'[i] # disk[i] =>
         IF i = current
         THEN Range(Recover(disk[i])) \cap Range(history) \subseteq Range(Recover(disk'[i]))
         ELSE disk'[i] = Absent]_vars
==============================================================================
