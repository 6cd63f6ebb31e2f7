--------------------------- MODULE LLMClientProofs ---------------------------
(***************************************************************************)
(* Proofs about LLMClient, for every number of retries: its types and the  *)
(* bound on the tries, that every way out releases what the call holds,    *)
(* and that the answer is made of the last reply.                          *)
(***************************************************************************)
EXTENDS LLMClient, SequenceTheorems, TLAPS

\* The types, in the parts the proofs take one at a time.
StateTypes ==
  /\ op \in {"chat", "models"}
  /\ pc \in {"connect", "send", "receive", "parse", "repeat", "judge", "end"}
  /\ again \in BOOLEAN /\ attempt \in 0..NetRetries
  /\ status \in {0, 200, 400, 500}
  /\ result \in {"none", "ok", "error", "killed"}

TryTypes ==
  /\ tries \in Seq(Tries)
  /\ Len(tries) <= (IF op = "chat" THEN 2 * NetRetries + 1 ELSE 1)

ReplyTypes ==
  /\ socks \subseteq 1..Len(tries) /\ heap \subseteq 1..Len(tries)
  /\ response \in 0..Len(tries) /\ body \in 0..Len(tries)

\* The tries a call may have made where it is.
Budget ==
  IF again THEN NetRetries + attempt + (IF pc = "connect" THEN 0 ELSE 1)
  ELSE IF pc = "connect" THEN attempt
  ELSE IF pc \in {"send", "receive", "parse"} THEN attempt + 1
  ELSE NetRetries + 1

Spent ==
  /\ Len(tries) <= Budget
  /\ op = "models" => /\ ~again /\ attempt = 0 /\ pc # "repeat"
                      /\ Len(tries) <= (IF pc = "connect" THEN 0 ELSE 1)

\* What a call holds when it has a reply to judge: that of the last try, ...
Fresh ==
  /\ This >= 1 /\ socks = {} /\ heap = {This}
  /\ response = This /\ body = This /\ status = tries[This].status

\* ... or none, after a retry without a reply.
Stale ==
  again /\ socks = {} /\ heap = {} /\ response = Null /\ ServerError(status)

\* What it holds where it is.
Held ==
  /\ pc = "connect" => socks = {} /\ heap = {} /\ response = Null
  /\ pc \in {"send", "receive"} =>
       This >= 1 /\ socks = {This} /\ heap = {} /\ response = Null
  /\ pc = "parse" => This >= 1 /\ socks = {} /\ heap = {This} /\ response = This
  /\ pc = "repeat" => Fresh
  /\ pc = "judge" => Fresh \/ Stale
  /\ pc = "end" => socks = {} /\ heap = {}
  /\ again /\ pc \in {"connect", "send", "receive"} => ServerError(status)

IInv == StateTypes /\ TryTypes /\ ReplyTypes /\ Spent /\ Held
------------------------------------------------------------------------------
\* A try is added, or gets its outcome: the others stay.
LEMMA TryAdded ==
  ASSUME tries \in Seq(Tries), NEW e \in Tries, tries' = Append(tries, e)
  PROVE  /\ tries' \in Seq(Tries) /\ Len(tries) \in Nat
         /\ Len(tries') = Len(tries) + 1
         /\ tries'[Len(tries')] = e
BY AppendProperties, LenProperties

LEMMA TryMet ==
  ASSUME tries \in Seq(Tries), This >= 1, NEW m, NEW s, Met(m, s),
         [met |-> m, status |-> s] \in Tries
  PROVE  /\ tries' \in Seq(Tries) /\ Len(tries) \in Nat
         /\ Len(tries') = Len(tries)
         /\ tries'[Len(tries)] = [met |-> m, status |-> s]
<1>1. Len(tries) \in Nat /\ This \in 1..Len(tries)
  BY LenProperties DEF This
<1> DEFINE e == [met |-> m, status |-> s]
<1>2. e \in Tries /\ tries' = [tries EXCEPT ![This] = e]
  BY DEF Met
<1> HIDE DEF e
<1>3. /\ tries' \in Seq(Tries) /\ Len(tries') = Len(tries)
      /\ \A j \in 1..Len(tries) : tries'[j] = IF j = This THEN e ELSE tries[j]
  BY <1>1, <1>2, ExceptSeq
<1>4. QED
  BY <1>1, <1>3 DEF This, e

LEMMA ThisIsTry ==
  ASSUME tries \in Seq(Tries)
  PROVE  /\ Len(tries) \in Nat
         /\ \A t \in 1..Len(tries) : tries[t] \in Tries
BY LenProperties, ElementOfSeq

\* Outcomes are tries.
LEMMA Outcomes ==
  /\ \A m \in Failures : [met |-> m, status |-> 0] \in Tries
  /\ \A m \in Forms, s \in {200, 400, 500} : [met |-> m, status |-> s] \in Tries
BY DEF Tries
------------------------------------------------------------------------------
LEMMA InitHolds == Init => IInv
<1> SUFFICES ASSUME Init PROVE IInv
  OBVIOUS
<1> USE LLMClientAssumption
<1>1. tries \in Seq(Tries) /\ Len(tries) = 0
  BY EmptySeq DEF Init
<1>2. StateTypes
  <2>1. /\ op \in {"chat", "models"} /\ pc = "connect"
        /\ again = FALSE /\ attempt = 0 /\ status = 0 /\ result = "none"
    BY DEF Init
  <2>2. again \in BOOLEAN
    BY <2>1
  <2>3. attempt \in 0..NetRetries
    BY <2>1
  <2>4. QED
    BY <2>1, <2>2, <2>3, Zenon DEF StateTypes
<1>3. TryTypes
  <2>1. op \in {"chat", "models"}
    BY DEF Init
  <2>2. QED
    BY <1>1, <2>1 DEF TryTypes
<1>4. ReplyTypes
  <2>1. socks = {} /\ heap = {} /\ response = 0 /\ body = 0
    BY DEF Init, Null
  <2>2. QED
    BY <1>1, <2>1 DEF ReplyTypes
<1>5. Spent
  <2>1. pc = "connect" /\ again = FALSE /\ attempt = 0
    BY DEF Init
  <2>2. QED
    BY <1>1, <2>1 DEF Spent, Budget
<1>6. Held
  BY DEF Init, Held
<1>7. QED
  BY <1>2, <1>3, <1>4, <1>5, <1>6 DEF IInv

\* A try that brings no reply, in the loop it belongs to.
LEMMA NoReplyStep ==
  ASSUME IInv, pc \in {"connect", "send", "receive"}, NoReply,
         UNCHANGED <<op, again, response, heap, body, status>>,
         tries' \in Seq(Tries),
         Len(tries') = IF pc = "connect" THEN Len(tries) + 1 ELSE Len(tries),
         socks' = {}
  PROVE  IInv'
<1> USE LLMClientAssumption
<1>1. Len(tries) \in Nat
  BY LenProperties DEF IInv, TryTypes
<1>2. StateTypes'
  BY DEF IInv, StateTypes, NoReply, TriesLeft, On, End
<1>3. TryTypes'
  BY <1>1 DEF IInv, StateTypes, TryTypes, Spent, Budget
<1>4. ReplyTypes'
  BY <1>1 DEF IInv, ReplyTypes
<1>5. Spent'
  BY <1>1 DEF IInv, StateTypes, TryTypes, Spent, Budget, NoReply, TriesLeft, On, End
<1>6. Held'
  BY DEF IInv, StateTypes, Held, Stale, NoReply, TriesLeft, On, End, ServerError
<1>7. QED
  BY <1>2, <1>3, <1>4, <1>5, <1>6 DEF IInv

LEMMA ConnectStep == IInv /\ Connect => IInv'
<1> SUFFICES ASSUME IInv, Connect PROVE IInv'
  OBVIOUS
<1> USE LLMClientAssumption
<1>1. tries \in Seq(Tries)
  BY DEF IInv, TryTypes
<1>2. CASE tries' = Append(tries, [met |-> "refused", status |-> 0]) /\ NoReply /\ UNCHANGED socks
  <2>1. tries' \in Seq(Tries) /\ Len(tries) \in Nat /\ Len(tries') = Len(tries) + 1
    BY <1>1, <1>2, TryAdded, Outcomes DEF Failures
  <2>2. QED
    BY <1>2, <2>1, NoReplyStep DEF Connect, IInv, Held
<1>3. CASE /\ tries' = Append(tries, [met |-> "open", status |-> 0])
           /\ socks' = socks \cup {Len(tries')}
           /\ On("send") /\ UNCHANGED attempt
  <2>1. tries' \in Seq(Tries) /\ Len(tries) \in Nat /\ Len(tries') = Len(tries) + 1
    BY <1>1, <1>3, TryAdded, Outcomes DEF Failures
  <2>2. StateTypes'
    BY <1>3 DEF Connect, IInv, StateTypes, On
  <2>3. TryTypes'
    BY <1>3, <2>1 DEF Connect, IInv, StateTypes, TryTypes, Spent, Budget
  <2>4. ReplyTypes'
    <3>1. /\ socks' \subseteq 1..Len(tries') /\ heap' = {} /\ response' = 0
          /\ body \in 0..Len(tries) /\ body' = body
      <4>1. socks = {} /\ heap = {} /\ response = 0 /\ body \in 0..Len(tries)
        BY DEF Connect, IInv, Held, ReplyTypes, Null
      <4>2. UNCHANGED <<heap, response, body>>
        BY DEF Connect
      <4>3. socks' \subseteq 1..Len(tries')
        BY <1>3, <2>1, <4>1
      <4>4. QED
        BY <4>1, <4>2, <4>3
    <3>2. QED
      BY <2>1, <3>1 DEF ReplyTypes
  <2>5. Spent'
    BY <1>3, <2>1 DEF Connect, IInv, StateTypes, Spent, Budget, On
  <2>6. Held'
    BY <1>3, <2>1 DEF Connect, IInv, Held, On, This, ServerError
  <2>7. QED
    BY <2>2, <2>3, <2>4, <2>5, <2>6 DEF IInv
<1>4. QED
  BY <1>2, <1>3 DEF Connect

LEMMA SendStep == IInv /\ Send => IInv'
<1> SUFFICES ASSUME IInv, Send PROVE IInv'
  OBVIOUS
<1> USE LLMClientAssumption
<1>1. tries \in Seq(Tries) /\ Len(tries) \in Nat /\ This >= 1 /\ socks = {This}
  BY LenProperties DEF IInv, TryTypes, Held, Send
<1>2. CASE On("receive") /\ UNCHANGED <<attempt, tries, socks>>
  <2>1. StateTypes' /\ TryTypes' /\ ReplyTypes'
    BY <1>2 DEF Send, IInv, StateTypes, TryTypes, ReplyTypes, On
  <2>2. Spent'
    BY <1>2 DEF Send, IInv, Spent, Budget, On
  <2>3. Held'
    BY <1>2 DEF Send, IInv, Held, On, This, ServerError
  <2>4. QED
    BY <2>1, <2>2, <2>3 DEF IInv
<1>3. CASE Met("unsent", 0) /\ socks' = socks \ {This} /\ NoReply
  <2>1. tries' \in Seq(Tries) /\ Len(tries') = Len(tries)
    BY <1>1, <1>3, TryMet, Outcomes DEF Failures
  <2>2. QED
    BY <1>1, <1>3, <2>1, NoReplyStep DEF Send
<1>4. QED
  BY <1>2, <1>3 DEF Send

LEMMA SendKilledStep == IInv /\ SendKilled => IInv'
<1> SUFFICES ASSUME IInv, SendKilled PROVE IInv'
  OBVIOUS
<1> USE LLMClientAssumption
<1>1. tries \in Seq(Tries) /\ Len(tries) \in Nat /\ This >= 1
  BY LenProperties DEF IInv, TryTypes, Held, SendKilled
<1>2. tries' \in Seq(Tries) /\ Len(tries') = Len(tries)
  BY <1>1, TryMet, Outcomes DEF SendKilled, Failures
<1>3. StateTypes'
  BY DEF SendKilled, IInv, StateTypes, End
<1>4. TryTypes' /\ ReplyTypes'
  BY <1>2 DEF SendKilled, IInv, TryTypes, ReplyTypes
<1>5. Spent'
  BY <1>1, <1>2 DEF SendKilled, IInv, StateTypes, Spent, Budget, End
<1>6. Held'
  BY DEF SendKilled, Held, End
<1>7. QED
  BY <1>3, <1>4, <1>5, <1>6 DEF IInv

LEMMA ReceiveStep == IInv /\ Receive => IInv'
<1> SUFFICES ASSUME IInv, Receive PROVE IInv'
  OBVIOUS
<1> USE LLMClientAssumption
<1>1. tries \in Seq(Tries) /\ Len(tries) \in Nat /\ This >= 1 /\ socks' = {}
  BY LenProperties DEF IInv, TryTypes, Held, Receive
<1>2. CASE Met("lost", 0) /\ NoReply /\ UNCHANGED <<response, heap>>
  <2>1. tries' \in Seq(Tries) /\ Len(tries') = Len(tries)
    BY <1>1, <1>2, TryMet, Outcomes DEF Failures
  <2>2. QED
    BY <1>1, <1>2, <2>1, NoReplyStep DEF Receive
<1>3. ASSUME NEW m \in Forms, NEW s \in {200, 400, 500}, Met(m, s),
             response' = This, heap' = heap \cup {This}, On("parse"), UNCHANGED attempt
      PROVE  IInv'
  <2>1. tries' \in Seq(Tries) /\ Len(tries') = Len(tries)
    <3>1. [met |-> m, status |-> s] \in Tries
      BY DEF Tries
    <3>2. QED
      BY <1>1, <1>3, <3>1, TryMet
  <2>2. StateTypes'
    BY <1>3 DEF Receive, IInv, StateTypes, On
  <2>3. TryTypes'
    BY <2>1 DEF Receive, IInv, TryTypes
  <2>4. ReplyTypes'
    <3>1. /\ socks' = {} /\ heap' = {Len(tries)} /\ response' = Len(tries)
          /\ body' = body /\ body \in 0..Len(tries) /\ Len(tries) >= 1
      BY <1>1, <1>3 DEF Receive, IInv, ReplyTypes, Held, This
    <3>2. QED
      BY <1>1, <2>1, <3>1 DEF ReplyTypes
  <2>5. Spent'
    BY <1>3, <2>1 DEF Receive, IInv, Spent, Budget, On
  <2>6. Held'
    BY <1>1, <1>3, <2>1 DEF Receive, IInv, Held, On, This
  <2>7. QED
    BY <2>2, <2>3, <2>4, <2>5, <2>6 DEF IInv
<1>4. QED
  BY <1>2, <1>3 DEF Receive

LEMMA ParseStep == IInv /\ Parse => IInv'
<1> SUFFICES ASSUME IInv, Parse PROVE IInv'
  OBVIOUS
<1> USE LLMClientAssumption
<1>1. /\ tries \in Seq(Tries) /\ Len(tries) \in Nat /\ Len(tries) >= 1
      /\ response = This /\ This = Len(tries) /\ socks = {} /\ heap = {This}
  BY LenProperties DEF IInv, TryTypes, Held, Parse, This
<1>2. tries[This].status \in {0, 200, 400, 500}
  <2>1. tries[This] \in Tries
    BY <1>1, ThisIsTry
  <2>2. QED
    BY <2>1 DEF Tries
<1>3. StateTypes'
  BY <1>1, <1>2 DEF Parse, IInv, StateTypes, On
<1>4. TryTypes'
  BY DEF Parse, IInv, TryTypes
<1>5. ReplyTypes'
  BY <1>1 DEF Parse, IInv, ReplyTypes, BodyOf
<1>6. Spent'
  BY <1>1 DEF Parse, IInv, StateTypes, Spent, Budget, On
<1>7. Held'
  BY <1>1 DEF Parse, IInv, StateTypes, Held, Fresh, BodyOf, On, This
<1>8. QED
  BY <1>3, <1>4, <1>5, <1>6, <1>7 DEF IInv

LEMMA ParseFailsStep == IInv /\ ParseFails => IInv'
<1> SUFFICES ASSUME IInv, ParseFails PROVE IInv'
  OBVIOUS
<1> USE LLMClientAssumption
<1>1. Len(tries) \in Nat
  BY LenProperties DEF IInv, TryTypes
<1>2. StateTypes' /\ TryTypes' /\ ReplyTypes'
  BY DEF ParseFails, IInv, StateTypes, TryTypes, ReplyTypes, Dropped, End
<1>3. Spent'
  BY <1>1 DEF ParseFails, IInv, StateTypes, Spent, Budget, End
<1>4. Held'
  BY DEF ParseFails, IInv, Held, Dropped, End
<1>5. QED
  BY <1>2, <1>3, <1>4 DEF IInv

LEMMA RepeatStep == IInv /\ Repeat => IInv'
<1> SUFFICES ASSUME IInv, Repeat PROVE IInv'
  OBVIOUS
<1> USE LLMClientAssumption
<1>1. Len(tries) \in Nat
  BY LenProperties DEF IInv, TryTypes
<1>2. StateTypes'
  BY DEF Repeat, IInv, StateTypes, TriesLeft, On
<1>3. TryTypes' /\ ReplyTypes'
  BY <1>1 DEF Repeat, IInv, TryTypes, ReplyTypes, Dropped, Null
<1>4. Spent'
  BY <1>1 DEF Repeat, IInv, StateTypes, Spent, Budget, TriesLeft, On
<1>5. Held'
  BY DEF Repeat, IInv, Held, Fresh, Dropped, Retriable, ServerError, On
<1>6. QED
  BY <1>2, <1>3, <1>4, <1>5 DEF IInv

LEMMA RepeatNoMoreStep == IInv /\ RepeatNoMore => IInv'
<1> SUFFICES ASSUME IInv, RepeatNoMore PROVE IInv'
  OBVIOUS
<1> USE LLMClientAssumption
<1>1. Len(tries) \in Nat
  BY LenProperties DEF IInv, TryTypes
<1>2. StateTypes' /\ TryTypes' /\ ReplyTypes'
  BY DEF RepeatNoMore, IInv, StateTypes, TryTypes, ReplyTypes, On
<1>3. Spent'
  BY <1>1 DEF RepeatNoMore, IInv, StateTypes, Spent, Budget, On
<1>4. Held'
  BY DEF RepeatNoMore, IInv, Held, Fresh, This, On
<1>5. QED
  BY <1>2, <1>3, <1>4 DEF IInv

\* The ways out of "judge", whose heap is given back whole.
LEMMA JudgeStep ==
  ASSUME IInv, pc = "judge", NEW r \in {"ok", "error", "killed"}, End(r), heap' = {},
         UNCHANGED <<op, again, attempt, tries, socks, response, body, status>>
  PROVE  IInv'
<1> USE LLMClientAssumption
<1>1. Len(tries) \in Nat
  BY LenProperties DEF IInv, TryTypes
<1>2. StateTypes' /\ TryTypes' /\ ReplyTypes'
  BY DEF IInv, StateTypes, TryTypes, ReplyTypes, End
<1>3. Spent'
  BY <1>1 DEF IInv, StateTypes, Spent, Budget, End
<1>4. Held'
  BY DEF IInv, Held, Fresh, Stale, End
<1>5. QED
  BY <1>2, <1>3, <1>4 DEF IInv

LEMMA DropsAll == IInv /\ pc = "judge" /\ Dropped => heap' = {}
BY DEF IInv, Held, Fresh, Stale, Dropped

LEMMA RejectStep == IInv /\ Reject => IInv'
<1> SUFFICES ASSUME IInv, Reject PROVE IInv'
  OBVIOUS
<1>1. heap' = {} /\ (End("error") \/ End("killed"))
  BY DropsAll DEF Reject
<1>2. QED
  BY <1>1, JudgeStep DEF Reject

LEMMA BuildStep == IInv /\ Build => IInv'
<1> SUFFICES ASSUME IInv, Build PROVE IInv'
  OBVIOUS
<1>1. heap' = {} /\ (End("ok") \/ End("error"))
  BY DropsAll DEF Build
<1>2. QED
  BY <1>1, JudgeStep DEF Build

LEMMA ListModelsStep == IInv /\ ListModels => IInv'
<1> SUFFICES ASSUME IInv, ListModels PROVE IInv'
  OBVIOUS
<1>1. heap' = {} /\ (End("ok") \/ End("error"))
  BY DropsAll DEF ListModels
<1>2. QED
  BY <1>1, JudgeStep DEF ListModels

LEMMA StutterStep == IInv /\ UNCHANGED vars => IInv'
BY DEF vars, IInv, StateTypes, TryTypes, ReplyTypes, Spent, Budget, Held, Fresh, Stale, This

LEMMA NextHolds == IInv /\ [Next]_vars => IInv'
BY ConnectStep, SendStep, SendKilledStep, ReceiveStep, ParseStep, ParseFailsStep,
   RepeatStep, RepeatNoMoreStep, RejectStep, BuildStep, ListModelsStep, StutterStep
   DEF Next, Rest

LEMMA Invariance == Spec => []IInv
BY InitHolds, NextHolds, PTL DEF Spec
------------------------------------------------------------------------------
\* A call stays within its types, and so within 2 * LLM_NET_RETRIES + 1 tries.
THEOREM TypeCorrect == Spec => []TypeOK
<1>1. IInv => TypeOK
  BY DEF IInv, StateTypes, TryTypes, ReplyTypes, TypeOK
<1>2. QED
  BY <1>1, Invariance, PTL

\* A call that returns, by whichever of its ways, has closed its sockets and
\* freed its replies.
THEOREM ReleasesAll == Spec => []NothingLeft
<1>1. IInv => NothingLeft
  BY DEF IInv, Held, NothingLeft
<1>2. QED
  BY <1>1, Invariance, PTL

\* A call makes its answer of the reply of the last try, still allocated.
THEOREM AnswersLast == Spec => []AnswerIsLast
<1>1. IInv => AnswerIsLast
  BY DEF IInv, Held, Fresh, Stale, AnswerIsLast, ServerError
<1>2. QED
  BY <1>1, Invariance, PTL
------------------------------------------------------------------------------
\* Every try is over before the next begins, and what it brought allows one: no
\* reply, or a server error.  The last try's reply is yet to be judged where
\* there is one.
Allowed(t) == Replied(t) => ServerError(tries[t].status)

Repeatable ==
  /\ pc \in {"connect", "send", "receive"} => \A t \in 1..This : Allowed(t)
  /\ pc \in {"parse", "repeat", "judge"} => \A t \in 1..(This - 1) : Allowed(t)
  /\ pc \in {"send", "receive"} => ~Replied(This)

\* A try gets its outcome, the others keep theirs.
LEMMA OthersKept ==
  ASSUME tries \in Seq(Tries), NEW m, NEW s, Met(m, s)
  PROVE  /\ Len(tries') = Len(tries)
         /\ \A t \in 1..(This - 1) : tries'[t] = tries[t]
<1>1. DOMAIN tries = 1..Len(tries) /\ Len(tries) \in Nat
  BY LenProperties
<1>2. DOMAIN tries' = DOMAIN tries /\ \A t \in DOMAIN tries : t # This => tries'[t] = tries[t]
  BY DEF Met
<1>3. Len(tries') = Len(tries)
  BY <1>1, <1>2, LenProperties DEF Met
<1>4. QED
  BY <1>1, <1>2, <1>3 DEF This

\* The try fails, and what comes next finds all of them repeatable.
LEMMA UnansweredStep ==
  ASSUME IInv, Repeatable, pc \in {"send", "receive"},
         NEW m \in Failures, Met(m, 0), NoReply, again' = again
  PROVE  Repeatable'
<1>1. tries \in Seq(Tries) /\ This >= 1 /\ Len(tries) \in Nat
  BY LenProperties DEF IInv, TryTypes, Held
<1>2. Len(tries') = Len(tries) /\ \A t \in 1..(This - 1) : tries'[t] = tries[t]
  BY <1>1, OthersKept
<1>3. tries'[This].met = m
  BY <1>1 DEF Met, This
<1>4. ASSUME NEW t \in 1..This PROVE Allowed(t)'
  <2>1. CASE t = This
    BY <1>3, <2>1 DEF Allowed, Replied, Failures, Forms
  <2>2. CASE t # This
    <3>1. t \in 1..(This - 1)
      BY <1>1, <2>2 DEF This
    <3>2. Allowed(t)
      BY <3>1, <1>1 DEF Repeatable
    <3>3. QED
      BY <1>2, <3>1, <3>2 DEF Allowed, Replied
  <2>3. QED
    BY <2>1, <2>2
<1>5. pc' \in {"connect", "judge", "end"}
  BY DEF NoReply, On, End
<1>6. This' = This
  BY <1>2 DEF This
<1>7. \A t \in 1..(This - 1) : t \in 1..This
  BY <1>1 DEF This
<1>8. QED
  BY <1>4, <1>5, <1>6, <1>7 DEF Repeatable

LEMMA RepeatableStep == IInv /\ Repeatable /\ [Next]_vars => Repeatable'
<1> SUFFICES ASSUME IInv, Repeatable, [Next]_vars PROVE Repeatable'
  OBVIOUS
<1>1. tries \in Seq(Tries) /\ Len(tries) \in Nat /\ DOMAIN tries = 1..Len(tries) /\ This = Len(tries)
  BY LenProperties DEF IInv, TryTypes, This
<1>2. \A f \in Failures : ~ (f \in Forms)
  BY DEF Failures, Forms
<1>3. Connect => Repeatable'
  <2> SUFFICES ASSUME Connect PROVE Repeatable'
    OBVIOUS
  <2>1. PICK m \in Failures : /\ tries' = Append(tries, [met |-> m, status |-> 0])
                              /\ pc' \in {"send", "connect", "judge", "end"}
    BY DEF Connect, Failures, On, NoReply, End
  <2> DEFINE e == [met |-> m, status |-> 0]
  <2>2. e \in Tries /\ e.met = m /\ tries' = Append(tries, e)
    BY <2>1, Outcomes
  <2> HIDE DEF e
  <2>3. Len(tries') = Len(tries) + 1 /\ tries'[Len(tries) + 1] = e
        /\ \A t \in 1..Len(tries) : tries'[t] = tries[t]
    BY <1>1, <2>2, AppendProperties
  <2>4. \A t \in 1..Len(tries) : Allowed(t)
    BY <1>1 DEF Connect, Repeatable
  <2>5. ASSUME NEW t \in 1..(Len(tries) + 1) PROVE Allowed(t)'
    <3>1. CASE t = Len(tries) + 1
      BY <1>2, <2>2, <2>3, <3>1 DEF Allowed, Replied
    <3>2. CASE t # Len(tries) + 1
      <4>1. t \in 1..Len(tries)
        BY <1>1, <3>2
      <4>2. QED
        BY <2>3, <2>4, <4>1 DEF Allowed, Replied
    <3>3. QED
      BY <3>1, <3>2
  <2>6. This' = Len(tries) + 1 /\ \A t \in 1..(This' - 1) : t \in 1..This'
    BY <1>1, <2>3 DEF This
  <2>7. ~Replied(This)'
    BY <1>2, <2>2, <2>3, <2>6 DEF Replied
  <2>8. QED
    BY <2>1, <2>5, <2>6, <2>7 DEF Repeatable
<1>4. Send => Repeatable'
  <2>1. CASE On("receive") /\ UNCHANGED <<attempt, tries, socks>> /\ pc = "send"
    BY <2>1 DEF Repeatable, Allowed, Replied, This, On
  <2>2. CASE Met("unsent", 0) /\ NoReply /\ pc = "send" /\ again' = again
    BY <2>2, UnansweredStep DEF Failures
  <2>3. QED
    BY <2>1, <2>2 DEF Send
<1>5. SendKilled => Repeatable'
  BY DEF SendKilled, End, Repeatable
<1>6. Receive => Repeatable'
  <2>1. CASE Met("lost", 0) /\ NoReply /\ pc = "receive" /\ again' = again
    BY <2>1, UnansweredStep DEF Failures
  <2>2. ASSUME NEW m, NEW s, Met(m, s), On("parse"), pc = "receive" PROVE Repeatable'
    <3>1. Len(tries') = Len(tries) /\ \A t \in 1..(This - 1) : tries'[t] = tries[t]
      BY <1>1, <2>2, OthersKept
    <3>2. \A t \in 1..(This - 1) : Allowed(t)
      <4>1. \A t \in 1..(This - 1) : t \in 1..This
        BY <1>1
      <4>2. QED
        BY <2>2, <4>1 DEF Repeatable
    <3>3. This' = This
      BY <3>1 DEF This
    <3>4. \A t \in 1..(This - 1) : Allowed(t)'
      BY <3>1, <3>2 DEF Allowed, Replied
    <3>5. QED
      BY <2>2, <3>3, <3>4 DEF Repeatable, On
  <2>3. QED
    BY <2>1, <2>2 DEF Receive
<1>7. Parse => Repeatable'
  BY DEF Parse, On, Repeatable, Allowed, Replied, This
<1>8. ParseFails => Repeatable'
  BY DEF ParseFails, End, Repeatable
<1>9. Repeat => Repeatable'
  <2> SUFFICES ASSUME Repeat PROVE Repeatable'
    OBVIOUS
  <2>1. pc = "repeat" /\ tries' = tries /\ pc' = "connect" /\ ServerError(status)
    BY DEF Repeat, On, Retriable
  <2>2. status = tries[This].status
    BY <2>1 DEF IInv, Held, Fresh
  <2>3. ASSUME NEW t \in 1..This PROVE Allowed(t)'
    <3>1. CASE t = This
      BY <2>1, <2>2, <3>1 DEF Allowed
    <3>2. CASE t # This
      <4>1. \A n \in Nat : \A k \in 1..n : k # n => k \in 1..(n - 1)
        OBVIOUS
      <4>2. This \in Nat
        BY <1>1
      <4>3. t \in 1..(This - 1)
        BY <3>2, <4>1, <4>2
      <4>4. QED
        BY <2>1, <4>3 DEF Repeatable, Allowed, Replied
    <3>3. QED
      BY <3>1, <3>2
  <2>4. This' = This
    BY <2>1 DEF This
  <2>5. QED
    BY <2>1, <2>3, <2>4 DEF Repeatable
<1>10. RepeatNoMore => Repeatable'
  BY DEF RepeatNoMore, On, Repeatable, Allowed, Replied, This
<1>11. Reject => Repeatable'
  BY DEF Reject, End, Repeatable
<1>12. Build => Repeatable'
  BY DEF Build, End, Repeatable
<1>13. ListModels => Repeatable'
  BY DEF ListModels, End, Repeatable
<1>14. UNCHANGED vars => Repeatable'
  BY DEF vars, Repeatable, Allowed, Replied, This
<1>15. QED
  BY <1>3, <1>4, <1>5, <1>6, <1>7, <1>8, <1>9, <1>10, <1>11, <1>12, <1>13, <1>14 DEF Next, Rest

\* A request goes out again only when every try before it has brought no reply
\* or a server error, for any number of retries in both loops
\* (llm_client.c:223, 245).
THEOREM AsksOnce == Spec => NotAskedTwice
<1>1. Init => Repeatable
  <2>1. Init => tries \in Seq(Tries) /\ Len(tries) = 0
    BY EmptySeq DEF Init
  <2>2. QED
    BY <2>1 DEF Init, Repeatable, This
<1>2. IInv /\ Repeatable /\ [Next]_vars =>
        [Len(tries') > Len(tries) =>
           \A t \in 1..This : Replied(t) => ServerError(tries[t].status)]_vars
  <2> SUFFICES ASSUME IInv, Repeatable, Next, Len(tries') > Len(tries)
               PROVE  \A t \in 1..This : Replied(t) => ServerError(tries[t].status)
    OBVIOUS
  <2>1. tries \in Seq(Tries) /\ Len(tries) \in Nat
    BY LenProperties DEF IInv, TryTypes
  <2>2. ASSUME NEW m, NEW s, Met(m, s) PROVE FALSE
    BY <2>1, <2>2, OthersKept
  <2>3. tries' # tries
    BY <2>1
  <2>4. pc = "connect"
    BY <2>2, <2>3 DEF Next, Connect, Send, SendKilled, Receive, Parse, ParseFails,
       Repeat, RepeatNoMore, Reject, Build, ListModels, Rest, vars
  <2>5. QED
    BY <2>4 DEF Repeatable, Allowed
<1>3. QED
  BY <1>1, <1>2, RepeatableStep, Invariance, PTL DEF Spec, NotAskedTwice
==============================================================================
