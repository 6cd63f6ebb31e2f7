# c-agent in TLA+

A verification development for c-agent, a terminal coding agent in C: a main loop, an agent that talks to a language
model and runs tools, background subagents, a store of sessions, a project memory, skills that install themselves, a
render thread, a Markdown renderer and menus. The modules are translated from the source (`src/`, all paths below are
relative to it), checked on small instances with TLC, and what they must keep is proved for every instance with TLAPS:
of the executor, subagents, agent loop, sessions, project memory, user interface, list items in Markdown, menus, LLM client,
subprocess tools and skills.

    tlc -workers 2 -config executor_main.cfg MCExecutor     # any row of the table of runs
    tlapm ExecutorProofs.tla                                # and the other seven modules named *Proofs

`PROJECT.json` lists components, runs, hazards, findings, theorems, the source lines behind each definition, and for
every property a fault in the code that breaks it.

## 1. The system

| component | state | operations | hard because | what makes it correct |
|---|---|---|---|---|
| Tool executor, `tools/executor.c` | `ToolTask[]` of a batch, its threads | `executor_run_tools` | a thread per read-only call, several agents at once | refused whole or every call run once, conflicting ones in order, results by position |
| Hooks, `core/hooks.c` | hook list, `g_hooks_lock` | `hooks_emit` | called from every tool thread | one hook at a time |
| Tool registry, `tools/registry.c` | array of `ToolDef` | `tools_register`, `tool_find` | constant after start | |
| Subagents, `tools/subagent.c` | `pool[]` of slots, `next_id`, `pool_lock` | spawn, wait, status, cleanup | a wait gives the lock up over `pthread_join`; slots are reused | own result, each thread joined once, none survives exit |
| Agent loop, `agent/agent.c` | `Agent`: context, turn count | `agent_chat`, `agent_clear_history` | early returns in the middle of a turn | bounded turns, calls followed by answers |
| Context, `context/*.c` | history, offload ids, manifest | `ctx_reclaim` with offload, then summary | policies rewrite the history the loop goes on with | outputs are moved out before a summary, references lead to them, only a summary parts answers from calls |
| Session store, `core/session.c` | `log.jsonl`, `checkpoint.json`, `meta.json`; `current_session_id`, `new_since_checkpoint` | new, append, checkpoint, restore, delete, shutdown | crashes between files, `prev_count` held by main | what was said is read back |
| Project memory, `core/memory.c` | a file per type, `obs_buf` | init, remember, recall, delete, update, observe, consolidate | whole-file rewrites without a lock, a model call in the middle | entries leave only when named |
| Terminal UI, `ui/ui.c`, `ui/render.c` | event ring, slots, phase, `idle_ack` | post, `ui_idle`, `ui_stop`, render loop | two threads, one condition variable, a ring that drops | no lost wake-up, last frame kept, barrier |
| Main loop, `main.c` | `prev_count` | read, dispatch, chat, append, quit | drives all of the above | |
| LLM client and HTTP, `agent/llm_client.c`, `core/http.c` | a request, its sockets, `response` and the pointer into it | `llm_chat`, `fetch_models` (which nothing calls) | two retry loops over one response | the answer is the last reply, all is released, nothing answered is asked again |
| Subprocess tools, `tools/bash.c`, `web_fetch.c`, `web_search.c` | a child, a pipe | run, read, wait | children inherit the pipes of other calls; caps | whole output, nothing left, every call returns |
| File tools, `tools/read.c`, `write.c`, `edit.c`, `sandbox.c` | none | one read or write | | |
| Skills, `core/skills.c`, `tools/install_skill.c`, `skill_tool.c` | two directories of packages, `.agent/tmp`, the manifest in each agent's prompt | scan, load, install | a chain of commands each of which may fail, calls that share a temporary directory, a manifest that is not read again | what is installed is whole, a skill keeps its files unless forced, what was listed loads |
| Markdown, `ui/markdown.c` | `MdRender`: flags, counters, gathered text and tables | callbacks for blocks, spans, text | flags set and cleared by whatever nests; fixed arrays | every piece of text printed once, in order; items numbered |
| Commands and menus, `core/cmd.c` | raw mode, the menu's window | `/session`, `/memory`, `/model`, ... | change state behind main's back; the terminal is resized meanwhile | the entry highlighted is the one taken |
| JSON library, `libs/cJSON.c` | items in doubly linked lists, a parse and a print buffer | create, add, detach, insert, replace, delete, duplicate, compare, parse, print | memory runs out at any item; lists linked three ways | lists are trees; JSON is parsed, and little else; what is printed says what was read |
| Configuration, prompt, messages, utilities | `g_config`, lists | | straight-line code | |
| `libs/md4c.c`, `docs/` | | | third-party, static page | |

Who calls whom: `main` reads a line and gives it to `cmd_dispatch` or `agent_chat`. A chat reclaims context, asks the
model, hands the calls it gets to the executor, appends the answers, and asks again. The executor's threads run the
tools, then `hooks_emit` (the memory's observation buffer) and `ui_tool_done` (the render thread's slots). The tool
`subagent_spawn` starts a thread that runs an agent, with its own context, through the same executor. When the chat
returns, main shows the reply through the Markdown renderer and calls `session_append`; a command may open a menu
instead. `install_skill` runs its commands through `run_cmd`. Requests, replies, sessions and tool arguments are JSON,
read and written by cJSON. Shared between threads are: the hook lock and the observation buffer,
the UI's mutex, ring and slots, the pool and its lock, and, without any lock, the files of the memory.

## 2. Modules

| module | models | form |
|---|---|---|
| `ToolCalls` | requests, answers, which tools write | constants and operators, shared by the next two |
| `ToolBatch` | the contract in `tools/executor.h:8-30` | abstract specification |
| `Executor` | `executor_run_tools`, `hooks_emit`, `obs_add`, `ui_begin_tools`, `ui_tool_done` | implements `ToolBatch` by a refinement mapping |
| `ExecutorProofs` | | proofs about `Executor` |
| `Subagents` | `tools/subagent.c`, `subagent_cleanup` on main's way out | |
| `SubagentsProofs` | | proofs about `Subagents` |
| `Agent` | `agent_chat`, `ctx_reclaim`, the two policies | |
| `AgentProofs` | | proofs about `Agent` |
| `Session` | `core/session.c` under the loop of `main.c` and `/session` | |
| `SessionProofs` | | proofs about `Session` |
| `UI` | `ui/ui.c`, `ui/render.c`, under the calls main and tools make | |
| `UIProofs` | | proofs about `UI` and `Screen` (list items, where text goes) |
| `Memory` | `core/memory.c` under `tools/memory_tool.c`, `/memory` and main | |
| `LLMClient` | `llm_chat`, `fetch_models`, `core/http.c` | |
| `LLMClientProofs` | | proofs about `LLMClient` |
| `Subprocess` | `bash_tool_exec`, `run_curl_fetch`, `run_curl`, `run_cmd` | |
| `JsonForest` | what `libs/cJSON.h` promises of its items | abstract specification |
| `JsonItems` | the linked lists of `libs/cJSON.c` and the calls on them | implements `JsonForest` by a refinement mapping |
| `JsonText` | cJSON's parser and printer | operators, over `JsonItems` |
| `Json` | a program that uses cJSON, and a reference definition of JSON | composes the last two |
| `Skills` | `core/skills.c`, `tools/install_skill.c`, `skill_tool.c` | |
| `ToolsProofs` | | proofs about `Subprocess` and `Skills` |
| `Markdown` | `ui/markdown.c` under the callbacks of md4c | |
| `Menu` | `/session` and `/model` in `core/cmd.c` | |
| `CommandsProofs` | | proofs about `Menu` and `Memory` |
| `Screen` | the main thread, which shows a reply or a menu | composes `Markdown` and `Menu` |
| `MCExecutor`, `MCSubagents`, `MCAgent`, `MCMemory`, `MCJson`, `MCSkills`, `MCScreen` | | values for the constants of the runs |

In each module the block headed *Faults* holds slips one could make in the code; no action uses them. Each says which
operator it replaces, and the property paired with it in `PROJECT.json` then fails.

**Executor.** `batch`, `task`, `result`, `next` are `ToolTask[]` and the progress of the loop over it, for each agent.
A call goes `waiting`, `ready` (its thread started, or the serial loop reached it), `ran` (`def->exec` returned),
`locked` and `noted` (in and out of `hooks_emit`), `done`. `Refuse` is the check at line 106 that fails the whole
batch; `Accept` is the rest up to the loop, `Dispatch` one iteration of it, `Return` the joins and the building of
`out_msgs`. A batch is concurrent if it has one call or only read-only ones (137-147). The workspace is the number of
writes it has undergone, so the answer of a call tells before and after which writes it ran. `hooks_emit` is two steps,
the buffer read and the buffer written, so that without the lock an observation could be lost. `g_agent_silent` is
thread-local and not inherited: `SilentThread` is true only in the serial loop of a subagent.

**ToolBatch.** A batch is accepted or refused; an accepted call may run once every call before it that it conflicts
with (one of the two writes) has run; the reply has answer *i* at position *i*. In the refinement, a call counts as run
when its thread has stored the result, and all later steps of the task stutter.

**Subagents.** `pool` is the array of slots, `home` the pointer each thread was given. What the code does under
`pool_lock` is one action. `WaitJoin` to `WaitCollect` is the stretch of `subagent_wait` (199-205) in which the lock
is not held: the slot found before is used after it. `subagent_cleanup` is `CleanupJoin` and `CleanupSlot` for each
slot. Subagents have all tools, so the pool may be entered by them as well (`SubsMayCall`).

**Agent.** A message is its kind, its size class, and why offload would pass it by. `pc` is the place in `agent_chat`:
`offload`, `summary`, `check` (`ctx_reclaim`, in the order it calls them), `ask` (`llm_chat`), `tools`
(`executor_run_tools`). What the model asks for, what tools return and which of them fail is free. A reference has the
number of its file and of its output; `files` says which output each file of the session's directory was last given, and
whether the disk took all of it (nothing looks at what `fwrite` and `fclose` return, policy_offload.c:219; `full` remembers
that it did not). A pass of offload fails at any message, after those before it were replaced, when its file or the manifest
does not open. `Restore` (in `RestoringSpec` only) is the user leaving the session and coming back: the history is read back
into a context that is fresh. The agent is the only one of its session: a subagent's context numbers its files from 0 too, in
the same directory. The request a summary makes is a step that may fail; its size is not modelled.

**Session.** A message is a number; those in `Long` have a line that `fgets` gives to a restore in pieces (`char
line[65536]`, 268). `disk[i]` has the messages of `checkpoint.json`, the lines of `log.jsonl` (a message, a torn line, or a
torn line with a message run on to it), and whether the directory is there. `pc` is the place in `session_append`,
`session_checkpoint`, `session_new`, `session_restore` or `session_shutdown` at which a crash can fall: log flushed, meta
written, checkpoint renamed, log truncated. Nothing looks at what `fwrite`, `fprintf` or `fclose` returns, so a write may also
end short and count as done: `AppendShort` leaves a part of the log's new lines, `CheckpointShort` a checkpoint that does
not parse. `AppendFails`, `CheckpointFails`, `TruncateFails`, `CreateFails` and `LoadUnread` are the opens, the mkdir and the
rename that fail. `saved` is a history variable with what `session_append` has put on a line of the log, `upset` says
what has come between so far, for the properties that hold until then. A chat adds messages, may summarise, or fails, with
its message left in the history or not.

**UI.** `queue` is the ring (one event fewer than its size), `screen` what the loop of the render thread changes.
Each section under the mutex is one action; a signal wakes either of the two threads that share the condition
variable. `RenderDrain` is one turn of the loop: all events, then the frame of its phase. `main` follows `agent.c`,
`executor.c` and `main.c` through the calls they make, `todo` are the tools that have yet to report. `turn` and `guests`
count the requests of main and the reports of subagents' tools from one drain of the ring to the next, so that `MaxTurns`
and `MaxGuests` say how far the render thread falls behind and a run has no end. Subagents report (`GuestDone`) also while
`ui_stop` waits for the render thread; what they call after that is beyond the model (section 5, `main.c:73`).

**Memory.** `files[t]` are the entries a read of `<type>.md` gives; a content with several lines reads back as other
entries than were written (`Lines`). Every call is `Locate`d or finds its place, reads the file, edits its copy, and
writes it: each read and each write is a step, since nothing is locked. The writes of `.tmp` and its rename are one
step with three outcomes: whole, failed, or short on a full disk (`fwrite` is not looked at). A file that cannot be
opened for reading counts as empty (`Read`): an append then writes a file of the new entry alone, an index may be that of
another entry, and at a start `ensure_type_file` puts an empty file in its place. `find_index_location`
reads the files of all types in one step. A consolidation is a snapshot of the buffer, a model call that may fail, up
to `MaxAnswer` remembers, and `obs_clear`; subagents `Observe` meanwhile, each observation in one step, though
`memory_consolidate` does not take the hook lock and may read an observation while it is moved. `named` (the entry recall shows
under the index), `sent` (the observations in the prompt) and `blind` (a file was not read) are there for the properties.

**LLMClient.** One call. A try is one connection, and its number names the reply it brought, the memory the reply is
in and the socket. `again` tells the second loop (245) from the first (207), `attempt` is the counter of either.
`heap` are the replies allocated, so a read through `body` of what is not there is a use of freed memory: `Reject` then
may end the call well or kill the process. `SendKilled` is the SIGPIPE of a connection the service has reset.

**Subprocess.** All four functions have the same steps, `Pipe` to `Wait`, and `Keeps` and `Stops` say how they differ.
`reads[p]` and `writes[p]` are the pipe ends process `p` has open: `Fork` copies those of the agent, since no pipe is
close-on-exec, and a read returns 0 (`AtEnd`) only when no process has the write end. Output is counted in pieces. A
child's own steps are writing, exiting, and being killed by a pipe without readers.

**JsonItems, JsonForest.** `heap[i]` is a cJSON item: kind, key, value, `next`, `prev`, `child`. Every call is one
action that rewrites the heap as the C code does, pointer by pointer (`Detach`, `Insert`, `Replace` with their cases
for first and last item); `got` says whether the copy of a key could be allocated, and there are as many items as
`Items` has. The library's precondition, that an item is added once and not below itself, is `MayHold`. In
`JsonForest` an item has a sequence of children. The mapping reads a list along `next`.

**JsonText, Json.** A text is a sequence of tokens, one for each byte the parser tells apart. `Parse` follows
`parse_value` and its kind over a buffer with an offset, `over` says that a byte was read or written outside a buffer.
`Print` is `print_value` with `ensure` and `update_offset`, into a buffer that grows, a few times or never. The value of a
number is a decimal: `StrToD` and `General` are what `strtod` and `sprintf` make of a text and of a value (external, with the
limits of a double, but for texts of more than 15 digits, which no run has), and `ParseNumber` and `PrintNumber` the code
around them: which bytes are handed to `strtod`, how many it took, and that 1.0 is printed as 1, -0 as 0, 1e999 as null.
`Json` types
a text byte by byte, or damages one of the longer `Seeds`, and states what JSON is (`IsValue`) without a parser: a
text cut at some of its commas. It does so twice: as RFC 8259 has it, and `lax`, as cJSON takes it: control
characters count as blanks and may stand in strings, and `01`, `1.` and `-.5` are numbers. `ParsesJson` says that every
JSON text is taken and nothing that is not `lax`; `PrintsBack`, that what is printed is JSON in the strict sense, and that it
says what was read (`Says`), numbers compared by value, with infinity turned into null. A `\u` escape of the print (`^A`)
is beyond the parser modelled; of the parser's allocations only those of items fail.

**Skills.** A package is the name its SKILL.md states, its version, whether SKILL.md is there, whether all its own files
are, and whether another package lies inside it: `cp -R` to a target that has come to exist puts the package there. A package
is taken to have no directory of its own of the name the source has; `cp -R` would then overwrite files in that one.
`call[a]` goes `fetch`, `check`, `target`, `remove`, `copy`, `cleanup`, one step for each command or test of
`tool_install_skill`; a command that fails may leave a torn directory (`Torn`). `tmp` is indexed by the second. The
source may be outside, a repository that is cloned, or a directory that is itself an installed skill. `Listed` is
the manifest and `Load` is `load_skill`. `manifest[a]` is what the directories held as the agent `a` was created, which
its prompt keeps; a new subagent (`NewAgent`) reads them again. Reading both directories is one step, and so is each command.

**Markdown.** `open` is what md4c is in: any properly nested sequence of blocks and spans. `r` is `MdRender` with the
names of the code, `out` the pieces of text printed so far, `marks` the list markers. A piece is one column wide, and
its place (alternative text, code block, cell, or line) is `Gathered`, the order of tests in `print_text` and `text_cb`.
`excused` are pieces for which there is no room. Of the limits on rows and columns that is decided from what md4c has
entered; a full array, and what a box or a table of the screen's width cuts when it is drawn (`InBox`, `InTable`), are read off
`r`. `NothingLost` therefore says that a piece reaches the box or the table it belongs to, in order, and not that the widths
(`CodeWidth`, `Widths`) cut no more of it than they must: those are translated and not checked.

**Menu, Screen.** The window (`selected`, `top`, `visible`) and `frame`, the rows drawn last. Keys arrive byte by byte
(`awaits`), with the time-out of an escape. `Resize` may happen at any moment and nothing else sees it until the next
frame. `Screen` has the main thread show a menu or a reply, never both.

## 3. Runs

| run | shows | states |
|---|---|---|
| `executor_main` | `WritesRunAlone`, `ObservedOnce`, `ImplementsToolBatch`, `BatchReturns` hold | 60 k |
| `subagents_main` | `WaitReturnsOwn`, `JoinedOnce`, `ResultKept`, `NobodyWaitsForever` hold if only main waits | 27 k |
| `session_main` | `KeptUntilDeleted` holds until a checkpoint is cut short; `LoggedKept` until one is, a summary is made or a restore cannot open a file; `LogBounded` and `FirstSessionLogged` hold until a session is entered by a command, a summary made, or a write failed | 4.5 M |
| `agent_main` | `SummaryTakesReferences`, `RepliesFollow`, `ReferencesReadBack`, `ReferencesStay`, `ChatReturns` hold while a context lives | 1.7 M |
| `agent_restored` | `ReferencesReadBack` does not over a restore | |
| `ui_main` | `NeverOversleeps`, `FrameKept`, `MainReturns` hold | 18 k |
| `memory_main` | `RecallNamesEntries`, `NoSecondCopy`, `ObservationsKept` hold for one agent's calls; `EntryLeavesByName` until the disk is full, and but for the start and calls that could not open a file | 321 k |
| `llm_main` | `AnswerIsLast`, `NothingLeft`, `NotAskedTwice` hold | 3.6 k |
| `subprocess_main` | `OutputWhole`, `CallReturns` hold for two calls, at most one of which stops reading early | 113 k |
| `json_main` | `ParsesJson`, `PrintsBack`, `ImplementsForest` hold | 125 k |
| `skills_main` | `InstalledWhole`, `KeptUnlessForced`, `ListedLoads` hold | 2.8 M |
| `screen_main` | `NothingLost`, `ItemsCounted`, `SelectionShown` hold | 6.2 M |

Each module has one type invariant. `TypeOK` is checked by name in `executor_main` and `llm_main`, where it is a theorem too;
`JoinedOnce`, `LoggedKept`, `SummaryTakesReferences`, `NeverOversleeps`, `RecallNamesEntries` and `OutputWhole` have the one of their module
as a conjunct.

**Bounds, and why they are enough.** `executor_main`: two agents (one silent), two calls of each of the three sorts a tool
can be of, so that every pair of calls meets in every order; a third call adds no new pair, and `WritesRunAlone` and the
refinement are proved for any number. One slot, so that a batch goes beyond the array. The buffer holds three of the up to
four observations. `subagents_main`: two slots and three subagents, so that a slot is reused, and three waits, so that there
is one more than a main that waits for each of them once needs to find nothing. `agent_main`: two chats (three in `agent_restored`), two turns of two
calls, a window of twelve tokens with messages of one to six: both policies run, each with something to do and with nothing,
and each failing; offload makes some messages heavier, and fails half-way with ids used, or with files that are cut short. `session_main`: two ids and eight
messages in turns of two, with a checkpoint at four, give a session that is checkpointed in the middle, killed, left,
restored from another and deleted; a third id adds no step that the second has not. One message is too long for the
restore's buffer, and one open, rename or write fails (with two, which takes four minutes, the properties hold as
well). `ui_main`: batches of up to three with
two slots, a ring of seven that holds six events, two requests and two reports of subagents between two drains, any number of
them over the run: the ring does overflow. With one report more the event that opens a batch can be dropped and its frame is
then not kept: how much the ring must hold is in the theorem `LastFrameStays`, and the real ring of 64 with 32 slots holds it
up to 29 reports of subagents between two turns of the render loop. `memory_main`: two types (one before the other), contents
that are equal, different and of two lines, three calls over two starts; a recall, a delete and an update of another type
need no more. Three observations overflow a buffer of two while a consolidation waits. `llm_main`: the real number of retries, and a status of each class (a reply is good, refused, or a server
error). `subprocess_main`: two calls of every pair of functions, a pipe of one piece, a cap of one, and three pieces of
output: one read, one in the pipe, one that does not fit; pipes are inherited between two calls, a third inherits in the same
way. `json_main`: four items give a list of three, with a first, a middle and a last; or a list of two within a list. Texts
of up to four of 17 tokens have every way of ending early, and numbers in and out of JSON; the seeds, of up to 15 tokens with
one byte removed, added or replaced, have every production with something after it, a byte order mark, and numbers that are
printed with an exponent, with a point, or as null. Parsing is tried with as many items as the text has tokens (ten at most)
and each smaller number, printing with buffers of each size up to enough. `skills_main`: two agents, two seconds and two calls, so that calls share a second or
not; a source of each sort and a package with each defect; the subagent may be replaced by a new one between its calls. `screen_main`: eight blocks and spans reach a list within a list's
item, and a table with a second row; two pieces of text are enough for an order and for one too many, the limits of the
arrays being one to three. (Items deeper than `MaxLists` are not numbered; 16 in the code, 2 here.) Six sessions and windows
of three to six rows scroll both ways, heights change between any two keys.

**Fairness.** `executor_main`: a started thread runs, a tool's `exec` returns (HTTP has time-outs; `bash` has none, bash.c:83-92,
so this takes it that commands end), so weak fairness of each step of a task, of the dispatch and the return; nobody must submit a batch. `subagents_main`: a
subagent's chat ends (its turns are bounded, `agent_main`), a thread that has published its result ends, a join whose thread
has ended returns; nobody must spawn, wait or quit. `agent_main`: a request ends (the service closes, or is silent for
`LLM_TIMEOUT_SEC`), so weak fairness of the steps within a chat, and none of starting one. `ui_main`: both threads are
scheduled, weak fairness of the render loop and of main's calls. `subprocess_main`: a thread runs when it can, a program
writes and ends when it can (curl has `--max-time`; a command of `bash` that never ends blocks its call). No run needs strong
fairness. The other runs are about safety and have none. Deadlock is checked in every run but two: where the bound stops a
system, a step `Rest` (or its like) that changes nothing says so. `json_main` and `skills_main` end where texts and calls
have reached their bound; nothing there waits for another, so there is no deadlock to look for.

## 4. Proofs

Each theorem holds for every value of the constants that the assumptions named below admit, and has its invariant in the
module of the proof. TLC checks the property itself, on the instance of the component's run.

| theorem | of | states | for every |
|---|---|---|---|
| `TypeCorrect`, `WritesAlone`, `HooksLogOnce` | `ExecutorProofs` | `TypeOK`, `WritesRunAlone`, `ObservedOnce` | agents, tools, limits, batches |
| `ExecutorRefines` | | `ImplementsToolBatch` | |
| `TypeCorrect`, `ReleasesAll`, `AnswersLast`, `AsksOnce` | `LLMClientProofs` | `TypeOK`, `NothingLeft`, `AnswerIsLast`, `NotAskedTwice` | number of retries |
| `ShowsSelection` | `CommandsProofs` | `SelectionShown` | sessions, models, heights, keys |
| `IndexIsEntry` | | `RecallNamesEntries` | agents, types, entries, contents |
| `LeavesByName`, `NoSecond`, `KeepsObservations` | | `EntryLeavesByName`, `NoSecondCopy`, `ObservationsKept` | types, entries, contents, one agent |
| `ThreadsJoinedOnce`, `WaitIsAnswered`, `ResultsAreKept` | `SubagentsProofs` | `JoinedOnce`, `WaitReturnsOwn`, `ResultKept` | pool, spawns, waits of main |
| `SummaryTakesNoOutput`, `CallsAreAnswered`, `FilesAreOwn`, `OffloadedOnce` | `AgentProofs` | `SummaryTakesReferences`, `RepliesFollow`, `ReferencesReadBack`, `ReferencesStay` | window, sizes, turns, chats |
| `LoggedIsRestored`, `LogStaysShort`, `TurnIsLogged`, `DiskIsKept` | `SessionProofs` | `LoggedKept`, `LogBounded`, `FirstSessionLogged`, `KeptUntilDeleted` | length of logs, interval, crashes |
| `SleepsOnNothing`, `LastFrameStays` | `UIProofs` | `NeverOversleeps`, `FrameKept` | ring, slots, length of run |
| `CountsItems`, `PrintsAll` | | `ItemsCounted`, `NothingLost` | length and nesting of a reply, sizes of the renderer |
| `ReadsWhole` | `ToolsProofs` | `OutputWhole` | calls, pipe, cap, length of output |
| `PackageIsWhole`, `WholeSkillsAreKept`, `ListedAreLoaded` | | `InstalledWhole`, `KeptUnlessForced`, `ListedLoads` | agents, sources, directories |

**ExecutorProofs.** `WritesRunAlone` is not inductive: nothing in it says that the serial loop has not yet
come to a later call. `IInv` adds `DispatchOrder` (a call is waiting exactly if the loop has
not passed it) and `SerialOrder` (in a serial batch all before a begun call is done). `OrderStep` is the step, action
by action; `IInv => WritesRunAlone` by cases on whether the batch is concurrent, in which case nothing writes.
The refinement uses the same invariant: `Exec` is `Run` (`SerialOrder` gives that
conflicting earlier calls have answered; in a concurrent batch there is no conflict), `Return` is `Reply` since all
calls are done, `Accept` and `Refuse` are their namesakes, everything else stutters. `ObservedOnce` counts marks in the
buffer; its invariant adds `LockHeld` (the call inside its hook has the lock and has read the buffer as it still is) and
`Log` (no two marks are equal, none is of a round to come, and the marks of a running batch are of
calls whose hook is over). `ObsAdded` says what `obs_add` keeps. That the lock is free when `hookLock = NoOne` needs
that `NoOne` names no call, where the assumption said only that it names no agent; it now says so.

**LLMClientProofs.** `TypeOK` has the bound of 2 * `NetRetries` + 1 tries. It needs `Spent`, how many
tries a call can have made at each place (`Budget`): `attempt` is set back to 0 by a reply and counts tries
begun in the first loop, retries in the second, so that it alone says nothing of the total.
`ReleasesAll` and `AnswersLast` need `Held`, what is
allocated and open at each place. At `judge` a call holds the reply of the last try (`Fresh`) or, after a retry
that brought none, nothing (`Stale`), and then its status is a server error and `body` is not read as an answer. There is
one lemma for each action; the four ways a try brings no reply share `NoReplyStep`, the ways out of `judge`
share `JudgeStep`. `AsksOnce` adds `Repeatable`: which of the tries are known to have been worth another at each place,
all before the last while the last is judged, all of them at `connect`.

**CommandsProofs: menus.** `SelectionShown` speaks of the rows on the screen, so `WindowOK` adds how they come about: where a menu
is open, `frame` is `SessionFrame` of a window that is within the list and holds the selection (`InWindow`), and the model
menu is such a window over the whole list. `AdjustedHolds` shows that `adjust_session_window` gives such a window wherever
the last one was, `VisibleFits` that `session_visible_rows` is within the list whatever the height, `FrameShows` that the rows
of such a window are what the property asks. A resizing leaves the window alone until the next key, when both are applied again.

**CommandsProofs: memory.** `IndexIsEntry` needs no more of the state than its types, `TypeInv` (what a file is read back as
is one-line entries): it is a fact about `Locate`, which walks the types and subtracts, and about what a recall shows, which
counts. Both are compared with the sums of the lengths before each type (`Sums`), for as many types as there are.
`LeavesByName` and `NoSecond` are action properties, for one agent: `AloneInv` says that the copy a call is about to write is the file as it is, less
or with the one entry the call is about (`CopyOf`), or that a file was not read. Both fail for two
agents (section 5), which is why `Agents = {Main}` is a hypothesis; it is the instance `memory_main` checks. Subagents have
the memory tool as well, so the two theorems say what the store keeps while no subagent uses it. `KeepsObservations` has no such
hypothesis: `ObsInv` says that only the main thread consolidates, and that whatever is in the buffer was in its prompt or is
newer than the newest of it (`Asked`).

**SubagentsProofs.** The theorems assume that subagents do not call the pool's tools (`~SubsMayCall`): where they do,
`WaitReturnsOwn` is false (section 5). An active slot is the home of its thread and a thread at its chat has one
(`SlotOwned`, `ChatHoused`), so that a slot is not taken while a wait is in the stretch without the lock; a wait or the
cleanup, never both, has joined the thread (`JoinPending`). A first invariant was not inductive: it let the cleanup begin in
the middle of the pool, and `CleanupRight` now has it begin at the first slot.

**AgentProofs.** For `Spec`; over a restore `ReferencesReadBack` is false (`agent_restored`). `RepliesFollow` compares a tool
message with the call it answers, and a summary may swallow the call (section 5): `Ordered` says what is between a tool
message and its call or the summary, tool messages only. `OpenCalls` counts the calls without answers, of which there is one
for each batch that failed, and one more while tools run. `References` has all file numbers of the history below `nextId`, and
each file with the output of its reference; `FilesKnown` has the files given out as those below `nextId`, so that a pass
writes to none that is named (`WrittenHow`). What a summary keeps, and what an offload pass leaves of a history, are lemmas of
their own (order, open calls, references). `SummaryTakesNoOutput` is for thresholds that are equal, as shipped: that a lower
threshold of offload does as well compares sums of tokens over a history of any length, an induction, and is only checked.

**SessionProofs.** `FirstSessionLogged` and `LogBounded` rest on `Smooth`: until a command, a summary or a failed write comes
between, main's count, the log and the counter of the active session agree at each place a crash can fall (`InStep`).
`LoggedKept` rests on `Whole`: until a summary, a checkpoint cut short or a file not read (`Clean`), what was logged for any
session is in what a restore reads, and of the active session it is in the history as well, which the next checkpoint will
put in its place. `Housed` and `Aimed` say which directories exist and which of them a save or a switch is about.
`KeptUntilDeleted` has one condition, that no checkpoint was cut short: its proof is about `Recover` of one directory before
and after each write. `ReadableJoined`, that a log is read line by line, carries a message too long for the buffer from the
log to the checkpoint. `Readable` is a recursive function here rather than a `SelectSeq`, of which the provers know nothing.

**UIProofs: the ring.** Both theorems have a hypothesis on the ring, since it drops its oldest event: the events between two
turns of the render thread must fit. `SleepsOnNothing` asks `MaxGuests < QueueSize - 1`; with `QueueSize = 6` TLC finds
`NeverOversleeps` true for four reports and false for five. `LastFrameStays` asks `Room`, which is exact in the same sense:
with a ring of six, two slots, two requests and one report `FrameKept` holds, with a third request or a third slot it does
not. The invariant says where the idle event is that main waits for (`Noticed`: in the ring, with nothing but events of
guests behind it), and where a frame is that has not been kept (`Keeping`): its batch is in the ring (`Fresh`), it is on the
screen (`Shown`), or it is and the idle event that will commit it is ahead of everything else (`Behind`); the last is where a
stale acknowledgement (section 5) does no harm. `Framed` was a CASE with two arms that overlap when the render thread is told
to stop, which TLA+ leaves open and TLC decides by order; the proof did not go through, and it is now an IF.

**UIProofs: list items.** A marker is printed with the first line that starts in an item, whichever block that line is in,
and the renderer takes the number at its own depth; md4c says only what it enters and leaves. `ReplyInv` ties the two.
`Depths` has a witness `at`: where in what is open the list of each depth is, in order and without a gap, also beyond
`MaxLists`. `GoesOn`: the number of an ordered list that is open is its start and the markers it has had. `Unmarked`: while a
marker is pending the innermost open item has none. `Noted` is `ItemsCounted` with the markers' names below the next one, so
that a new list or item has none. `InBlock` says that a line break within a code block is gathered and starts no line. Every
operator of the renderer keeps the four fields the invariant is about (`Like`), or prints the one marker (`Gave`), or enters
or leaves a list; a step then is one lemma about what is open.

**UIProofs: text.** A piece is printed at once or waits in an image's text, a code block or a cell; `TextInv` says where each
is. `InOrder`: the pieces in each of these places are in the order of the reply, behind all that is printed, and the cells
are in it row by row (`Sorted`). `Kept`: each piece handed over is in one of them, printed or excused. That alone is not
inductive, for a flag of the renderer decides where the next piece goes: `Stacked` says what can be open within what
(`Under`), `Flagged` that the flags say what is open, `Seen` that the renderer counts no more rows and cells than md4c has
opened, and `Filled` that no cell beyond the ones it has counted holds anything, so that what is put to a cell is behind all
the others. Then text in a table is in a cell and text beside a code block is not in one (`TextPlace`), and when nothing is
open nothing waits (`AllShown`). What a table and a box show is `InTableHow` and `InBoxHow`: pieces of theirs, in their
order, whatever the widths come to. `Pieces`, the widths and the narrowing of the widest column are recursive functions in
`Markdown` for the sake of these lemmas; `Recursion` shows that such a function on `0..n` has its values.

**ToolsProofs: output.** The loop of a call ends when its read returns 0, and another call's child may hold the write end, or
a child be gone before its pipe is empty. `CallsOK` says, for each call by itself, which ends are open and by whom
(`EndsOpen`), what state a child may be in at each place (`ChildStage`), and that what was written is what is left to write,
in the pipe, or read (`Account`), so that where a function goes on to `waitpid` nothing more is to come or it wants no more.
A read of 0 means that no process has the write end (`AtEnd`), in particular not the child: that is all the proof needs of
the other calls.

**ToolsProofs: skills.** `Right` says of each call what it has learned so far (`Settled`) and, of a call that had the
directories to itself, that what it asked for is still where it is read from (`Undisturbed`). The one state in which a source
may be gone is between the removal of the target and the copy, when the source is the target. `RootStep` names
the three ways a skill's directory changes: the removal of a forced call, a copy to where nothing is, and a copy inside what is
there by a call that another ran beside. `KeptUnlessForced` and `ListedLoads`, action properties of any number of calls, are
read off it; the second needs also what the entries of a manifest are (`ManifestsOK`). The assumptions now say what `Sources` and
`Already` are made of.

**Assumptions.** The named `ASSUME`s of `ToolCalls`, `Executor`, `LLMClient`, `Menu`, `Memory`, `Subagents`, `Agent`,
`Session`, `UI`, `Markdown`, `Subprocess` and `Skills`: read-only tools are registered, limits and sizes are numbers
(positive where an array or a ring has at least one place), `NoOne` is no holder of the lock, there is a model, packages and
sources are of the form the model gives them. TLC evaluates them in the run of each component.

**Induction.** The library's theorems for induction take an operator as a parameter and cannot be used here. Where a fact is
about a log or a batch of events of any length, the proof takes the least index at which it fails (`LeastOf`, from `WFMin`)
and shows that there is none: so for `Readable` (`SessionProofs`), for `FoldLeft` over the drained events (`FoldedHow`,
`Carried` in `UIProofs`), for the sequences a table is flattened from (`FlatHow`) and for the sums and the entries read back
in `CommandsProofs`.

**Only model-checked.** All liveness, `BatchReturns`, `NobodyWaitsForever`, `ChatReturns`, `MainReturns` and `CallReturns`:
fairness and ENABLED are beyond the prover. `ParsesJson`, `PrintsBack` and `ImplementsForest`: a tree, a parser and a printer
are `RECURSIVE` operators, which no proof can reach. Every other property that a run checks is a theorem.

## 5. Where the code and its documents differ

With a run (see `findings` in `PROJECT.json`): `agent_restored`, that a restored context, or a subagent's, writes its first
offloaded outputs over the files that references of the session still name (`context/policy_offload.c:207`).

Reproduced with a change to a configuration:

- `tools/subagent.c:206`: a wait reads the slot it found before it joined, and a subagent that waits too may have released
  it: a wait returns another's result, though `subagent.c:7` gives each id its own. `WaitReturnsOwn` fails in
  `subagents_main` with `SubsMayCall = TRUE`, `PoolSize = 2`, `MaxSpawns = 2`, `MaxWaits = 1`.
- `main.c:66`: `prev_count` is kept over `/session new` and `restore`, and turns go unlogged, though `README_en.md:190` says every
  turn is. `TurnLogged` (no run checks it) fails as a PROPERTY of `session_main` with `Crashes`, `Summarises` FALSE, `MaxFails = 0`
  and `Long = {}`.
- `ui/ui.c:151`: the acknowledgement `ui_idle` waits for may be that of an earlier one, so that it returns before the
  terminal is free, though `ui/ui.h:51` calls it a barrier. `Barrier` (no run checks it) fails as an INVARIANT of `ui_main`
  with `QueueSize = 6`, `MaxBatch = 2`, `MaxGuests = 0`.
- `core/memory.c:328`: of two agents that remember at once, each writes the whole file it read, and an entry is lost, though `memory.h:36`
  has entries leave by deletion. `EntryLeavesByName` fails in `memory_main` with `Agents <- TwoAgents`, `Legacy <- NoLegacy`,
  `MaxOps = 2`, `MaxSeen = 0`, `MaxStarts = 1` and no faults.

Met while modelling:

- `tools/web_search.c:84`: `run_curl` stops reading at `SEARCH_MAX_HTML` and closes its read end, which a curl started
  meanwhile for another search has inherited. If both pipes were made before both forks, each curl holds the other's
  read end, writes on, fills the pipe and blocks, and both threads stay in `waitpid`. `CallReturns` fails with
  `MaxShort = 2`. Searches are read-only and run in parallel (`README_en.md:137`). It takes replies of more than the
  cap and a pipe, about 265 KB, which `--max-filesize 300000` allows.
- `tools/web_search.c:81`: alone, a search whose output goes beyond the cap fails, for curl is killed by its pipe.
- `tools/bash.c:85`: output is joined with `%s`, and what follows a NUL byte in a read is dropped.
- `agent/llm_client.c:276`: when a retry after a server error brings no reply, the error text is read from the reply
  freed at 247. The source says (121) "`make asan` will tell you if you got it wrong". The action `Reject`.
- `core/http.c:47`: nothing ignores SIGPIPE, so that a connection the service has reset may end the process where a
  second try is meant (207). The action `SendKilled`.
- `tools/executor.c:150`: a thread starts with its own `g_agent_silent`, which is false, so that a subagent's parallel
  calls mark the main agent's tool slots; `agent/agent.c:28` and `agent.h:9` say subagents draw nothing.
- `tools/subagent.c:172`: a wait without an id takes the first running subagent, which may be the caller, or one that
  waits for the caller. `NobodyWaitsForever` fails under `SubsMayCall`.
- `core/session.c:492`: a summary leaves the history shorter than `prev_count`, and `session_append` logs nothing of
  the turn. `TurnLogged` fails with `Summarises`.
- `core/session.c:567-577`: a crash between the rename of the checkpoint and the truncation of the log leaves the
  logged messages in both, and a restore reads them twice. Nothing is lost (`LoggedKept`).
- `core/session.c:500-506`: the append after a torn line does not end that line, and its first message is lost with
  it; `README_en.md:194` speaks of partial lines only.
- `core/session.c:108`: `atomic_write` looks at neither `fwrite`, `fflush` nor `fclose`. On a full disk a checkpoint that is
  short, and does not parse, is renamed over the whole one, the log is truncated (575), and the session is lost
  (`CheckpointShort`; `KeptUntilDeleted` and `LoggedKept` except it). `session_append` does not see a log that is cut short
  either (506), and returns 0 (`AppendShort`).
- `core/session.c:268`: a restore reads lines into 65536 bytes. A longer message comes in pieces, of which none is the
  message, and is missing until a checkpoint has it, which is read whole.
- `core/session.c:237`, 266: a checkpoint or log that does not open counts as empty, and the next checkpoint of the restored
  session writes what was read over what was there (`LoadUnread`). 575: when the log does not open to be truncated, the
  messages are read twice. `main.c:34` ignores that `session_new` failed, and the turns that follow are not logged.
- `core/session.c:66`: ids are seconds. Two `/session new` within one share a directory. The model's clock moves on
  between them.
- `context/context.c:98`: summary is skipped whenever offload has reclaimed anything; `README_en.md:174` says when
  usage is below the summary threshold.
- `context/policy_summary.c:18`: a summary counts messages, not turns, and may take a call and leave its answers right behind
  it, where no call precedes them. `RepliesFollow` says that this is the only place. 70: the summary's own request holds all it
  replaces and is not compared with the window, as that of a turn is (`context/context.c:103`).
- `context/policy_offload.c:219`: neither `fwrite` nor `fclose` is looked at: on a full disk the output is replaced by a
  reference to a part of it (`full`).
- `context/policy_offload.c:180`: offload does not spare the recent messages (`context/internal.h:9`); 191: it
  replaces outputs that are shorter than the reference that replaces them.
- `core/memory.c:546`: an update to another type removes first; if the append fails or the process dies, the entry is
  in neither file. 155: on a full disk a short file is renamed over a whole one. 266: a file that exists and cannot be opened
  for reading counts as empty; the next append writes a file of its entry alone over it, and the next start (230) an empty one. 363: the migration of
  `.agent/memory.md` is made at every start, and brings a deleted entry back. 693: `/memory` reads and clears
  the observation buffer without the hook lock, and clears what subagents observed while it waited for the model, which was in no prompt. `memory.h:39` calls indices stable; each delete moves those behind.
- `main.c:73`: `ui_stop` destroys the mutex before `subagent_cleanup` joins threads that may call `ui_tool_done`.
- `tools/executor.c:79`: `ui_tool_done` takes an index into slots that another agent's batch may have set up since.
- `tools/executor.c:150`: the result of `pthread_create` is ignored, and a thread that did not start is joined.
- `tools/bash.c:42`: a child inherits the pipe ends of other calls, and puts off the end of their output to its own.
- `tools/install_skill.c:196`: calls of one second share a temporary directory: the first to end removes the other's clone, and
  if that one has by then removed the old skill (250), it is lost. Two calls that find a target free both copy, and the second copy
  lands inside the first's and reports "Installed" (256). `InstalledWhole` therefore leaves out calls that ran beside another, and
  `KeptUnlessForced` allows such a copy to leave its package inside the other.
- `tools/install_skill.c:250`: the old skill is removed before the new one is copied: a copy that fails leaves none, or a torn
  one; and a forced install from the directory of the skill itself deletes its source.
- `tools/install_skill.c:229`: with a `name` that differs from the one SKILL.md states, the manifest lists a name that
  `load_skill` does not find. `ListedLoads` has the two equal as its precondition.
- `agent/prompt.c:52`: the manifest is read once, as an agent is created: a skill that a forced install removes and fails to
  replace stays listed in the prompts of the agents there are, and one that is installed is in none of them.
- `ui/markdown.c:870`: a link or an image within an image's text loses its text or address (`tangled`). 500: in `- - a` or `1. - a` the outer
  marker is never shown and its number not counted; an item without text shows none; a heading in an item has no
  marker, which goes to a later line; a list that starts at 0 is shown from 1 (549). What is beyond 64 rows, 12
  columns, 255 bytes of a cell, 32767 of code or 511 of an image's text is cut.
- `core/cmd.c:129`: when raw mode is refused the model menu frees string literals. After the terminal has shrunk, rows
  of an earlier, larger frame stay on the screen. A window has three rows on terminals of under five (198).
- `libs/cJSON.c:995`: control characters count as blanks; 749: they may stand in strings; 305: `01`, `1.` and `-.5` are numbers.
  550: a number too large for a double is read as infinity and printed as null.
- `libs/cJSON.c`: `cJSON_Compare` finds members by key, so an object with a key twice may differ from itself
  by copy. `cJSON_Minify` takes `\\"` for an escaped quote; nothing calls it.

## 6. Not modelled

A failing `pthread_create`; a failing `malloc`, but for cJSON's. The text of prompts, frames, previews and requests. Name, tag and list of
sessions, which rewrite `meta.json` and nothing else; the migration of old sessions and `session_startup_recovery`, which nothing
calls. Two processes in one directory. Two writers in the same `.tmp` file of the memory. File tools (one read or write
of text each; their part in a batch is in `Executor`). Configuration, which is read once. `libs/md4c.c`, taken as what CommonMark says of
it: calls back for anything that nests. Of cJSON: `\u` escapes, `cJSON_Minify`, references and raw items, which the program does not use,
and the getters. `docs/`, a static page. Colours, frames and the width of characters in Markdown. A command
that leaves a process behind with its output open. A tool call without id or name (`xstrdup(NULL)`, `llm_client.c:328`). In `Session`: a piece of
an over-long line that happens to be JSON, and would be read as a message; a log write of which something in the middle is missing.

## 7. Plan

Done, in this order: `ToolCalls`, `ToolBatch`, `Executor`, `ExecutorProofs`, `Subagents`, `Session`, `Agent`, `UI`,
`Memory`, `LLMClient`, `Subprocess`, `LLMClientProofs`, offload in `Agent`, `JsonForest`, `JsonItems`, `JsonText`, `Json`,
`Skills`, `Markdown`, `Menu`, `Screen`, `CommandsProofs` for menus, `SubagentsProofs`, `ToolsProofs` for skills, `AgentProofs`,
`SessionProofs`, `UIProofs` for the ring, `NotAskedTwice` in `LLMClientProofs`, `ObservedOnce` in `ExecutorProofs`, `OutputWhole` in
`ToolsProofs`, the memory in `CommandsProofs`, `ItemsCounted` and `NothingLost` in `UIProofs`.

What is left is one proof: `JsonItems` without `RECURSIVE` operators (a rank on items instead of a tree), and its refinement of `JsonForest`.
