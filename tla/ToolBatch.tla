------------------------------ MODULE ToolBatch ------------------------------
(***************************************************************************)
(* What executor_run_tools() promises to the agent loop.                   *)
(*                                                                         *)
(* A batch is either refused before any tool runs, or every call of it is  *)
(* executed exactly once, conflicting calls in the order the model asked   *)
(* for them, and the reply lists call i's own answer at position i, however*)
(* the calls were scheduled.                                               *)
(***************************************************************************)
EXTENDS ToolCalls

VARIABLES
  batch,    \* batch[a]: the batch agent a has in hand, <<>> when none
  answers,  \* answers[a]: call -> answer, for the calls that have run
  reply,    \* reply[a]: the last reply, <<>> before one and after a refusal
  store     \* version of the workspace

vars == <<batch, answers, reply, store>>

NoAnswers == [i \in {} |-> 0]

Init ==
  /\ batch   = [a \in Agents |-> <<>>]
  /\ answers = [a \in Agents |-> NoAnswers]
  /\ reply   = [a \in Agents |-> <<>>]
  /\ store   = 0

Accept(a, b) ==
  /\ batch[a] = <<>>
  /\ ~Refused(b)
  /\ batch' = [batch EXCEPT ![a] = b]
  /\ reply' = [reply EXCEPT ![a] = <<>>]
  /\ UNCHANGED <<answers, store>>

Refuse(a, b) ==
  /\ batch[a] = <<>>
  /\ Refused(b)
  /\ reply' = [reply EXCEPT ![a] = <<>>]
  /\ UNCHANGED <<batch, answers, store>>

\* A call may run once everything it conflicts with before it has run.
Run(a, i) ==
  /\ i \in Calls(batch[a]) \ DOMAIN answers[a]
  /\ \A j \in 1..(i-1) :
        Conflict(batch[a][j], batch[a][i]) => j \in DOMAIN answers[a]
  /\ answers' = [answers EXCEPT ![a] =
        [j \in DOMAIN @ \cup {i} |->
           IF j = i THEN Answer(i, batch[a][i], store) ELSE @[j]]]
  /\ store' = Effect(batch[a][i], store)
  /\ UNCHANGED <<batch, reply>>

Reply(a) ==
  /\ batch[a] # <<>>
  /\ DOMAIN answers[a] = Calls(batch[a])
  /\ reply'   = [reply EXCEPT ![a] = answers[a]]
  /\ batch'   = [batch EXCEPT ![a] = <<>>]
  /\ answers' = [answers EXCEPT ![a] = NoAnswers]
  /\ UNCHANGED store

Next ==
  \E a \in Agents :
    \/ \E b \in Batches : Accept(a, b) \/ Refuse(a, b)
    \/ \E i \in 1..MaxCalls : Run(a, i)
    \/ Reply(a)

Spec == Init /\ [][Next]_vars
=============================================================================
