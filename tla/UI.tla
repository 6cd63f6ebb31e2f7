---------------------------------- MODULE UI ----------------------------------
(***************************************************************************)
(* The terminal UI: the event queue and its barrier (ui/ui.c), the render  *)
(* thread (ui/render.c), and the main thread as agent.c, executor.c and    *)
(* main.c make it call them.                                               *)
(*                                                                         *)
(* The two threads share one mutex and one condition variable.  Each part  *)
(* of the code that holds the mutex is one action; a signal wakes one of   *)
(* the threads waiting, whichever it is.                                   *)
(***************************************************************************)
EXTENDS Integers, Sequences, SequencesExt

CONSTANTS
  QueueSize,  \* EVENT_QUEUE_SIZE: the ring holds one event less
  MaxSlots,   \* MAX_RENDER_SLOTS
  MaxBatch,   \* bound: calls in one batch
  MaxTurns,   \* bound: requests of the model from one drain of the ring to the next
  MaxGuests   \* bound: ui_tool_done calls by subagents' threads, likewise

ASSUME UIAssumption ==
  /\ QueueSize \in Nat \ {0, 1}
  /\ {MaxSlots, MaxBatch} \subseteq Nat \ {0}
  /\ {MaxTurns, MaxGuests} \subseteq Nat

VARIABLES
  queue,   \* g_ui.events from head to tail
  slots,   \* the states of g_ui.slots[0..count)
  screen,  \* what the render thread's loop changes, see View
  render,  \* where the render thread is
  main,    \* where the main thread is
  todo,    \* calls of the batch that have not reported
  turn,    \* requests since the render thread last drained the ring
  guests   \* calls of subagents' threads since then

vars == <<queue, slots, screen, render, main, todo, turn, guests>>

Event == {"thinking", "tools", "done", "idle", "shutdown"}

\* main.at "idle" posts the event, "wait" has yet to see the acknowledgement,
\* "asleep" waits for a wake-up; main.to is where ui_idle returns to.
MainAt == {"prompt", "ask", "tools", "idle", "wait", "asleep", "reclaim", "print", "join", "over"}

\* phase; drawn: lines_drawn > 0; ack: idle_ack; stop: shutdown; and kept: the
\* last frame of the batch has been left in the scrollback.
View == [phase : {"idle", "thinking", "tools"},
         drawn : BOOLEAN, ack : BOOLEAN, stop : BOOLEAN, kept : BOOLEAN]

Min2(m, n) == IF m < n THEN m ELSE n

Go(p) == main' = [at |-> p, to |-> "prompt"]

\* ui_idle, called on the way to p.
GoIdle(p) == main' = [at |-> "idle", to |-> p]
------------------------------------------------------------------------------
(***************************************************************************)
(* Faults, each standing in for the operator named in its comment.         *)
(***************************************************************************)
\* Pushed, dropping the new event of a full ring and keeping the old.
PushedNewest(q, e) == IF Len(q) < QueueSize - 1 THEN Append(q, e) ELSE q

\* SignalRender, forgotten.
NoSignal == UNCHANGED render

\* OnIdle, erasing the tools' frame before it is committed.
OnIdleErased(v) == [v EXCEPT !.drawn = FALSE, !.phase = "idle", !.ack = TRUE]
------------------------------------------------------------------------------
AllDone == \A i \in DOMAIN slots : slots[i] = "done"

\* push_event_locked: a full ring drops its oldest event.
Pushed(q, e) == Append(IF Len(q) = QueueSize - 1 THEN Tail(q) ELSE q, e)

Woken(t) == IF t = "asleep" THEN "woken" ELSE t
WokenMain(m) == IF m.at = "asleep" THEN [m EXCEPT !.at = "wait"] ELSE m

\* pthread_cond_broadcast in enter_idle; the render thread itself is awake.
WokenAll(m) == WokenMain(m)

\* pthread_cond_signal by a thread other than main: one sleeper is woken.
Signal ==
  \/ render' = Woken(render) /\ UNCHANGED main
  \/ /\ main.at = "asleep"
     /\ main' = WokenMain(main) /\ UNCHANGED render

\* The same by main, which does not sleep then.
SignalRender == render' = Woken(render)

\* render_tools: the frame of a batch that is all done stays on the screen.
Tools(v) == [v EXCEPT !.drawn = ~AllDone, !.kept = @ \/ AllDone]

Rested(v) == [v EXCEPT !.drawn = FALSE, !.phase = "idle", !.ack = TRUE]

\* UI_EV_IDLE commits the tools' frame before it erases.
OnIdle(v) == Rested(IF v.phase = "tools" THEN Tools(v) ELSE v)

\* One event, as the render thread's loop takes it.
Taken(v, e) ==
  CASE e = "thinking" -> [v EXCEPT !.phase = "thinking"]
    [] e = "tools"    -> [v EXCEPT !.phase = "tools", !.drawn = FALSE]
    [] e = "done"     -> v
    [] e = "idle"     -> OnIdle(v)
    [] e = "shutdown" -> [v EXCEPT !.stop = TRUE]

\* The frame drawn after the events; a batch that is all done ends with it.
Framed(v) ==
  IF v.stop THEN [v EXCEPT !.drawn = FALSE]
  ELSE CASE v.phase = "idle"     -> v
         [] v.phase = "thinking" -> [v EXCEPT !.drawn = TRUE]
         [] v.phase = "tools"    -> IF AllDone THEN Rested(Tools(v)) ELSE Tools(v)
------------------------------------------------------------------------------
Init ==
  /\ queue = <<>> /\ slots = <<>>
  /\ screen = [phase |-> "idle", drawn |-> FALSE, ack |-> FALSE,
               stop |-> FALSE, kept |-> TRUE]
  /\ render = "awake"
  /\ main = [at |-> "prompt", to |-> "prompt"]
  /\ todo = {} /\ turn = 0 /\ guests = 0

Post(e) == queue' = Pushed(queue, e) /\ SignalRender

\* ui_begin_thinking: from the prompt, or between two requests of a chat.
BeginThinking ==
  /\ main.at \in {"prompt", "reclaim"} /\ turn < MaxTurns
  /\ Post("thinking")
  /\ screen' = [screen EXCEPT !.ack = FALSE]
  /\ Go("ask")
  /\ turn' = turn + 1
  /\ UNCHANGED <<slots, todo, guests>>

\* The model wants n tools: ui_begin_tools.
BeginTools(n) ==
  /\ main.at = "ask"
  /\ Post("tools")
  /\ slots' = [i \in 1..Min2(n, MaxSlots) |-> "running"]
  /\ screen' = [screen EXCEPT !.ack = FALSE, !.kept = FALSE]
  /\ todo' = 1..n
  /\ Go("tools")
  /\ UNCHANGED <<turn, guests>>

\* ui_tool_done: an index beyond the slots is ignored.
Done(i) ==
  IF i \in DOMAIN slots
  THEN slots' = [slots EXCEPT ![i] = "done"] /\ queue' = Pushed(queue, "done") /\ Signal
  ELSE UNCHANGED <<slots, queue, render, main>>

ToolDone(i) ==
  /\ i \in todo
  /\ Done(i)
  /\ todo' = todo \ {i}
  /\ UNCHANGED <<screen, turn, guests>>

\* A thread of a subagent's batch reports too (g_agent_silent is per thread).
GuestDone(i) ==
  /\ guests < MaxGuests /\ main.at # "over"
  /\ Done(i)
  /\ guests' = guests + 1
  /\ UNCHANGED <<screen, todo, turn>>

\* executor_run_tools has joined its threads.
ToolsJoined ==
  /\ main.at = "tools" /\ todo = {}
  /\ GoIdle("reclaim")
  /\ UNCHANGED <<queue, slots, screen, render, todo, turn, guests>>

\* The model has answered, or failed: agent.c, main.c go to ui_idle.
Answered ==
  /\ main.at = "ask"
  /\ GoIdle("print")
  /\ UNCHANGED <<queue, slots, screen, render, todo, turn, guests>>

\* The batch is refused, or the window exceeded: the chat fails as it is.
ChatFails ==
  /\ main.at \in {"ask", "reclaim"}
  /\ Go("prompt")
  /\ UNCHANGED <<queue, slots, screen, render, todo, turn, guests>>

\* main prints, and goes back to the prompt.
PrintReply ==
  /\ main.at = "print"
  /\ Go("prompt")
  /\ UNCHANGED <<queue, slots, screen, render, todo, turn, guests>>

PostIdle ==
  /\ main.at = "idle"
  /\ Post("idle")
  /\ main' = [main EXCEPT !.at = "wait"]
  /\ UNCHANGED <<slots, screen, todo, turn, guests>>

\* while (!g_ui.idle_ack) pthread_cond_wait
Wait ==
  /\ main.at = "wait"
  /\ IF screen.ack THEN Go(main.to) ELSE main' = [main EXCEPT !.at = "asleep"]
  /\ UNCHANGED <<queue, slots, screen, render, todo, turn, guests>>

\* ui_stop
Stop ==
  /\ main.at = "prompt"
  /\ Post("shutdown")
  /\ Go("join")
  /\ UNCHANGED <<slots, screen, todo, turn, guests>>

Joined ==
  /\ main.at = "join" /\ render = "gone"
  /\ Go("over")
  /\ slots' = <<>>
  /\ UNCHANGED <<queue, screen, render, todo, turn, guests>>

\* The render thread waits: with events at hand only in the idle phase not.
RenderWait ==
  /\ render = "awake"
  /\ render' = IF screen.phase = "idle" /\ queue # <<>> THEN "woken" ELSE "asleep"
  /\ UNCHANGED <<queue, slots, screen, main, todo, turn, guests>>

\* pthread_cond_timedwait is over.
RenderTimeout ==
  /\ render = "asleep" /\ screen.phase # "idle"
  /\ render' = "woken"
  /\ UNCHANGED <<queue, slots, screen, main, todo, turn, guests>>

\* It drains the queue and draws a frame.
RenderDrain ==
  LET v == Framed(FoldLeft(Taken, screen, queue))
  IN  /\ render = "woken"
      /\ queue' = <<>> /\ turn' = 0 /\ guests' = 0
      /\ screen' = v
      /\ main' = IF v.ack THEN WokenAll(main) ELSE main
      /\ render' = IF v.stop THEN "gone" ELSE "awake"
      /\ UNCHANGED <<slots, todo>>

Rest == main.at = "over" /\ UNCHANGED vars

Chatting ==
  \/ \E n \in 1..MaxBatch : BeginTools(n)
  \/ \E i \in 1..MaxBatch : ToolDone(i)
  \/ ToolsJoined \/ Answered \/ ChatFails \/ PrintReply
  \/ PostIdle \/ Wait \/ Joined

Rendering == RenderWait \/ RenderTimeout \/ RenderDrain

Next ==
  \/ BeginThinking \/ Chatting \/ Stop
  \/ \E i \in 1..MaxBatch : GuestDone(i)
  \/ Rendering
  \/ Rest

Spec == Init /\ [][Next]_vars

\* Both threads are scheduled, the model answers and tools return.
FairSpec == Spec /\ WF_vars(Chatting) /\ WF_vars(Rendering)
------------------------------------------------------------------------------
(***************************************************************************)
(* Properties.                                                             *)
(***************************************************************************)
\* The ring never holds more events than it can tell from an empty one, the
\* slots never pass their array, and the rest is of its type.
TypeOK ==
  /\ queue \in Seq(Event) /\ Len(queue) < QueueSize
  /\ slots \in Seq({"running", "done"}) /\ Len(slots) <= MaxSlots
  /\ screen \in View
  /\ render \in {"awake", "asleep", "woken", "gone"}
  /\ main \in [at : MainAt, to : MainAt]
  /\ todo \subseteq 1..MaxBatch
  /\ turn \in 0..MaxTurns /\ guests \in 0..MaxGuests

\* The render thread never sleeps, without a time limit, on events it has not
\* seen, although one condition variable serves both threads and a signal may
\* go to the other one; and all keeps its types, the ring its size (ui.c:63, 76,
\* render.c:270).
NeverOversleeps ==
  TypeOK /\ (render = "asleep" /\ screen.phase = "idle" => queue = <<>>)

\* ui_idle returns, however its wake-up and those of the tools cross, and so does
\* ui_stop, although a full ring drops events (ui.c:63, 93, 150).
MainReturns ==
  /\ main.at = "idle" ~> main.at \notin {"idle", "wait", "asleep"}
  /\ main.at = "join" ~> main.at = "over"

\* The last frame of the tools stays in the scrollback: when the program has
\* ended, the frame of its last batch with every tool done has been committed,
\* even if no timed frame came in time (render.c:302).
FrameKept == main.at = "over" => screen.kept

\* "Barrier: block until the render thread has fully drained the dynamic
\* region": when ui_idle has returned for main to print, nothing is drawn and
\* nothing will be (ui.c:146, ui.h:50).
Barrier == main.at = "print" => screen.phase = "idle" /\ ~screen.drawn
==============================================================================
