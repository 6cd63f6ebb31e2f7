-------------------------------- MODULE Agent --------------------------------
(***************************************************************************)
(* One agent and its context: the loop of agent_chat (agent/agent.c), the  *)
(* reclaiming of context budget (context/context.c) and its two policies   *)
(* (policy_offload.c, policy_summary.c).                                   *)
(*                                                                         *)
(* A message is a record without its text: what matters is who it is from, *)
(* how it answers another, how much it weighs, and whether the offload     *)
(* policy passes it by.  A tool message is the n-th after its assistant    *)
(* message, so answering is a matter of place and needs no call ids.       *)
(* The model behind llm_chat and the batch behind executor_run_tools are   *)
(* free: each may succeed with anything or fail.  ToolBatch says what the  *)
(* executor promises: a batch fails whole, or answers every call in order. *)
(***************************************************************************)
EXTENDS Integers, Sequences, SequencesExt, FiniteSets

CONSTANTS
  MaxTurns,     \* MAX_TURNS
  KeepRecent,   \* KEEP_RECENT_MSGS
  Window,       \* context_window, in tokens
  OffloadAt,    \* the usage above which offload is due, in tokens
  SummaryAt,    \* the usage above which summary is due, in tokens
  Weight,       \* Weight[s]: tokens of a message of size s
  Outputs,      \* what a tool may return: its size, and why it is exempt
  MaxCalls,     \* bound: calls in one assistant message
  MaxChats,     \* bound: requests the user makes
  BatchesFail,  \* executor_run_tools may fail
  DisksFail     \* an offload file or the manifest may not open, or take a write in part

\* A tool output below 100 bytes is "small".  A "medium" one is not, but is
\* shorter than the reference ("ref") that takes its place when offloaded.
Size == {"small", "medium", "ref", "big"}

\* An output that names .agent/offload/, or one that read an offload file.
Exempt == {"no", "path", "recovery"}

ASSUME AgentAssumption ==
  /\ {MaxTurns, KeepRecent, Window, OffloadAt, SummaryAt, MaxCalls, MaxChats} \subseteq Nat
  /\ KeepRecent > 0 /\ MaxCalls > 0
  /\ Weight \in [Size -> Nat]
  /\ Outputs \subseteq [size : {"small", "medium", "big"}, exempt : Exempt]
  /\ BatchesFail \in BOOLEAN /\ DisksFail \in BOOLEAN

VARIABLES
  history,  \* ctx->history
  pc,       \* where agent_chat is
  turns,    \* turns of tool use in this chat
  asked,    \* requests for a turn in this chat
  reply,    \* what the last chat returned
  refused,  \* assistant messages whose batch failed
  chats,    \* chats begun
  nextId,   \* ctx->next_offload_id
  files,    \* files[id]: what the session's offload file id was last given
  full      \* the disk has taken one of those writes in part

vars == <<history, pc, turns, asked, reply, refused, chats, nextId, files, full>>

Kind == {"user", "summary", "calls", "tool", "final"}
NoFile == -1
Message == [kind : Kind, n : Nat, size : Size, exempt : Exempt,
            file : Nat \cup {NoFile}, text : Nat]

\* n: the calls of a "calls" message, the place of a "tool" message; file: the
\* offload file a reference names; text: the output it stands for, known as the
\* first, second... that this file was given.
Msg(k, n, s, x) ==
  [kind |-> k, n |-> n, size |-> s, exempt |-> x, file |-> NoFile, text |-> 0]

ToolMsg(k, out) == Msg("tool", k, out.size, out.exempt)

\* ctx_total_tokens.
Tokens(h) ==
  LET upTo[i \in 0..Len(h)] == IF i = 0 THEN 0 ELSE upTo[i - 1] + Weight[h[i].size]
  IN  upTo[Len(h)]
------------------------------------------------------------------------------
(***************************************************************************)
(* Faults, each standing in for the operator named in its comment.         *)
(***************************************************************************)
\* Eligible, without the test for a reference that is already there.
EligibleAgain(h, i) == h[i].kind = "tool" /\ h[i].size # "small"

\* Summarised, with the summary behind the messages kept.
SummaryLast(h, s) ==
  Append(SubSeq(h, Len(h) - KeepRecent + 1, Len(h)), Msg("summary", 0, s, "no"))

\* OffloadDue, when the window is used up.
OffloadDueLate == Tokens(history) > Window

\* AfterOffload, running the policy until it tells.
OffloadAgain(before, after) == IF after < before THEN "check" ELSE "offload"

\* Results, with the loop one short.
AllButLastResult(outs) == [k \in 1..(Len(outs) - 1) |-> ToolMsg(k, outs[k])]

\* NextIdAfter, with the ids counted from one offload to the next.
OneIdEach(n, torn) == nextId + 1

------------------------------------------------------------------------------
(***************************************************************************)
(* Context.                                                                *)
(***************************************************************************)
\* The call that a tool message answers is still in the history.
Answers(h, i) == i > h[i].n /\ h[i - h[i].n].kind = "calls"

\* offload_apply moves message i out.  A recovery read is known by its call.
Eligible(h, i) ==
  /\ h[i].kind = "tool"
  /\ h[i].size # "small"
  /\ h[i].exempt # "path"
  /\ h[i].exempt = "recovery" => ~Answers(h, i)

EligibleIn(h, end) == {i \in 1..(end - 1) : Eligible(h, i)}

\* The texts a file was given.
Texts(id) == IF id \in DOMAIN files THEN files[id].text ELSE 0

\* The eligible messages before index `end' replaced by references: the ids go
\* up from next_offload_id, message by message.
Offloaded(h, end) ==
  [i \in DOMAIN h |->
     IF i < end /\ Eligible(h, i)
       THEN LET id == nextId + Cardinality(EligibleIn(h, i))
            IN  [h[i] EXCEPT !.size = "ref", !.exempt = "path",
                             !.file = id, !.text = Texts(id) + 1]
       ELSE h[i]]

\* next_offload_id after files for that many messages, and for one more whose
\* manifest entry could not be written.
NextIdAfter(n, torn) == nextId + n + IF torn THEN 1 ELSE 0

\* Those files are opened with "w"; from id `cut' on the disk takes the writes in
\* part, which nothing tells.
Written(n, torn, cut) ==
  LET ids == nextId..(nextId + n - IF torn THEN 0 ELSE 1)
  IN  [id \in DOMAIN files \cup ids |->
         IF id \in ids THEN [text |-> Texts(id) + 1, whole |-> id < cut] ELSE files[id]]

Write(n, torn) ==
  \E cut \in nextId..(nextId + n + 1) :
    /\ files' = Written(n, torn, cut)
    /\ full' = (full \/ \E id \in DOMAIN files' : ~files'[id].whole)
    /\ full' => DisksFail

Prefix(h) == Len(h) - KeepRecent

\* ctx_replace_range(ctx, 0, prefix_count, summary).
Summarised(h, s) ==
  <<Msg("summary", 0, s, "no")>> \o SubSeq(h, Prefix(h) + 1, Len(h))

\* ctx_reclaim's last test.
Fits(h) == Tokens(h) <= Window

\* if (after < before) break;
AfterOffload(before, after) == IF after < before THEN "check" ELSE "summary"

(***************************************************************************)
(* The loop.                                                               *)
(***************************************************************************)
Results(outs) == [k \in DOMAIN outs |-> ToolMsg(k, outs[k])]

TurnsLeft(t) == t < MaxTurns

Ended(h) == Append(h, Msg("final", 0, "small", "no"))

Init ==
  /\ history = <<>> /\ pc = "idle" /\ turns = 0 /\ asked = 0
  /\ reply = "none" /\ refused = 0 /\ chats = 0 /\ nextId = 0
  /\ files = <<>> /\ full = FALSE

Return(r) == pc' = "idle" /\ reply' = r

\* agent_chat begins: the request is pushed.
Chat(s) ==
  /\ pc = "idle" /\ chats < MaxChats
  /\ history' = Append(history, Msg("user", 0, s, "no"))
  /\ pc' = "offload" /\ turns' = 0 /\ asked' = 0
  /\ reply' = "none" /\ chats' = chats + 1
  /\ UNCHANGED <<refused, nextId, files, full>>

\* agent_clear_history, when the user goes to a new session: a fresh context,
\* and a directory of its own for its offload files.
Clear ==
  /\ pc = "idle" /\ history # <<>>
  /\ history' = <<>> /\ refused' = 0 /\ reply' = "none"
  /\ nextId' = 0 /\ files' = <<>> /\ full' = FALSE
  /\ UNCHANGED <<pc, turns, asked, chats>>

\* The user goes to another session and comes back: session_restore pushes the
\* messages of the checkpoint, references and all, into a fresh context.
Restore ==
  /\ pc = "idle" /\ nextId # 0
  /\ nextId' = 0 /\ reply' = "none"
  /\ UNCHANGED <<history, pc, turns, asked, refused, chats, files, full>>

OffloadDue == Tokens(history) > OffloadAt

NoOffload ==
  /\ pc = "offload" /\ ~OffloadDue
  /\ pc' = "summary"
  /\ UNCHANGED <<history, turns, asked, reply, refused, chats, nextId, files, full>>

\* The first policy; if it made the history lighter, the last one.
OffloadPolicy ==
  /\ pc = "offload" /\ OffloadDue
  /\ history' = Offloaded(history, Len(history) + 1)
  /\ LET n == Cardinality(EligibleIn(history, Len(history) + 1))
     IN  nextId' = NextIdAfter(n, FALSE) /\ Write(n, FALSE)
  /\ pc' = AfterOffload(Tokens(history), Tokens(history'))
  /\ UNCHANGED <<turns, asked, reply, refused, chats>>

\* The file of message i cannot be opened, or, with the file written (torn),
\* the manifest cannot: the chat fails with the messages before it replaced.
OffloadFails ==
  /\ DisksFail
  /\ pc = "offload" /\ OffloadDue
  /\ \E i \in DOMAIN history, torn \in BOOLEAN :
       /\ Eligible(history, i)
       /\ history' = Offloaded(history, i)
       /\ LET n == Cardinality(EligibleIn(history, i))
          IN  nextId' = NextIdAfter(n, torn) /\ Write(n, torn)
  /\ Return("none")
  /\ UNCHANGED <<turns, asked, refused, chats>>

SummaryDue == Tokens(history) > SummaryAt /\ Prefix(history) > 0

NoSummary ==
  /\ pc = "summary" /\ ~SummaryDue
  /\ pc' = "check"
  /\ UNCHANGED <<history, turns, asked, reply, refused, chats, nextId, files, full>>

\* The second policy: the model is asked for a summary, of whatever size.
SummaryPolicy(s) ==
  /\ pc = "summary" /\ SummaryDue
  /\ history' = Summarised(history, s)
  /\ pc' = "check"
  /\ UNCHANGED <<turns, asked, reply, refused, chats, nextId, files, full>>

\* llm_chat fails or says nothing.
SummaryFails ==
  /\ pc = "summary" /\ SummaryDue
  /\ Return("none")
  /\ UNCHANGED <<history, turns, asked, refused, chats, nextId, files, full>>

\* The end of ctx_reclaim; the request goes out if the history fits.
Check ==
  /\ pc = "check"
  /\ IF Fits(history)
       THEN pc' = "ask" /\ asked' = asked + 1 /\ UNCHANGED reply
       ELSE Return("none") /\ UNCHANGED asked
  /\ UNCHANGED <<history, turns, refused, chats, nextId, files, full>>

AskFails ==
  /\ pc = "ask"
  /\ Return("none")
  /\ UNCHANGED <<history, turns, asked, refused, chats, nextId, files, full>>

\* The model answers without calls: the chat is over.
Final ==
  /\ pc = "ask"
  /\ history' = Ended(history)
  /\ Return("answer")
  /\ UNCHANGED <<turns, asked, refused, chats, nextId, files, full>>

\* The model asks for n tool calls.
Call(n) ==
  /\ pc = "ask" /\ TurnsLeft(turns)
  /\ history' = Append(history, Msg("calls", n, "small", "no"))
  /\ pc' = "tools" /\ turns' = turns + 1
  /\ UNCHANGED <<asked, reply, refused, chats, nextId, files, full>>

\* It asks once too often: the response is dropped.
MaxTurnsExceeded ==
  /\ pc = "ask" /\ ~TurnsLeft(turns)
  /\ Return("maxturns")
  /\ turns' = turns + 1
  /\ UNCHANGED <<history, asked, refused, chats, nextId, files, full>>

\* executor_run_tools returns 0: one tool message for each call, in order.
Ran ==
  /\ pc = "tools"
  /\ \E outs \in [1..Last(history).n -> Outputs] :
       history' = history \o Results(outs)
  /\ pc' = "offload"
  /\ UNCHANGED <<turns, asked, reply, refused, chats, nextId, files, full>>

\* It returns -1: the chat fails, the assistant message stays.
BatchFails ==
  /\ BatchesFail
  /\ pc = "tools"
  /\ Return("none")
  /\ refused' = refused + 1
  /\ UNCHANGED <<history, turns, asked, chats, nextId, files, full>>

\* Nothing is left to do within the bounds.
Rest == pc = "idle" /\ chats = MaxChats /\ UNCHANGED vars

InChat ==
  \/ NoOffload \/ OffloadPolicy \/ OffloadFails
  \/ NoSummary \/ (\E s \in {"small", "big"} : SummaryPolicy(s)) \/ SummaryFails
  \/ Check
  \/ AskFails \/ Final \/ (\E n \in 1..MaxCalls : Call(n)) \/ MaxTurnsExceeded
  \/ Ran \/ BatchFails

Next ==
  \/ \E s \in {"small", "big"} : Chat(s)
  \/ Clear
  \/ InChat
  \/ Rest

Spec == Init /\ [][Next]_vars

\* The user may leave a session and come back to it.
RestoringSpec == Init /\ [][Next \/ Restore]_vars

\* A request to the model ends (LLM_TIMEOUT_SEC), and so does a batch whose
\* tools return.
FairSpec == Spec /\ WF_vars(InChat)
------------------------------------------------------------------------------
(***************************************************************************)
(* Properties.                                                             *)
(***************************************************************************)
\* The state stays within its types; a chat makes at most MAX_TURNS + 1 requests
\* for a turn, and tools run only for calls just made (agent.c:95, 104).
TypeOK ==
  /\ history \in Seq(Message)
  /\ pc \in {"idle", "offload", "summary", "check", "ask", "tools"}
  /\ turns \in 0..(MaxTurns + 1) /\ asked \in 0..(MaxTurns + 1)
  /\ reply \in {"none", "answer", "maxturns"}
  /\ refused \in Nat /\ chats \in 0..MaxChats /\ nextId \in Nat /\ full \in BOOLEAN
  /\ DOMAIN files \subseteq Nat
  /\ \A id \in DOMAIN files : files[id] \in [text : Nat, whole : BOOLEAN]
  /\ pc = "tools" => history # <<>> /\ Last(history).kind = "calls"

\* A summary replaces messages for good, an offload keeps them in a file; so where
\* offload is due no later than summary, as with the thresholds shipped
\* (config.c:47-49), no tool output goes into a summary that could have been
\* offloaded: it is short, or a reference, or has been read back from one, or
\* names one (context.c:82-100, policy_offload.c:190-205).
SummaryTakesReferences ==
  /\ TypeOK
  /\ OffloadAt <= SummaryAt /\ pc = "summary" /\ SummaryDue =>
       \A i \in 1..Prefix(history) :
         history[i].kind = "tool" => history[i].size = "small" \/ history[i].exempt # "no"

Answered(h, i) ==
  \A k \in 1..h[i].n : i + k \in DOMAIN h /\ h[i + k].kind = "tool" /\ h[i + k].n = k

\* Only a summary tears a call and its answer apart, and only where it ends: it
\* counts messages, not turns (policy_summary.c:18-19, 93), so the messages right
\* behind it may be answers without their call.  Every other tool message has the
\* call it answers in its place in front of it; and when the model is next asked
\* every call has its answers right behind it, but for the batches that failed
\* (agent.c:105-113).
RepliesFollow ==
  /\ \A i \in DOMAIN history : history[i].kind = "tool" =>
       \/ Answers(history, i)
       \/ /\ history[1].kind = "summary"
          /\ \A j \in 2..i : history[j].kind = "tool"
  /\ pc \in {"ask", "idle"} =>
       Cardinality({i \in DOMAIN history : history[i].kind = "calls" /\ ~Answered(history, i)})
         <= refused

\* What has been offloaded is not offloaded again: the reference stays as it is
\* for as long as no summary takes it (policy_offload.c:196).
ReferencesStay ==
  [][pc = "offload" => \A i \in DOMAIN history :
       history[i].size = "ref" => history'[i] = history[i] /\ ~Eligible(history, i)]_vars

\* "Call read_file with this path before relying on omitted content": while a
\* context lives, the file that a reference in its history names is no other's,
\* and holds the output it stands for, whatever failed since; all of that output,
\* unless the disk took a write in part, of which the code learns nothing
\* (policy_offload.c:207-234).
ReferencesReadBack ==
  \A i \in DOMAIN history : history[i].file # NoFile =>
    /\ history[i].file \in DOMAIN files
    /\ files[history[i].file].text = history[i].text
    /\ ~full => files[history[i].file].whole
    /\ \A j \in DOMAIN history : i # j => history[i].file # history[j].file

\* agent_chat returns.
ChatReturns == pc # "idle" ~> pc = "idle"
==============================================================================
