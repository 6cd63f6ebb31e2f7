------------------------------ MODULE LLMClient ------------------------------
(***************************************************************************)
(* One call of the client of the LLM service: llm_chat or fetch_models     *)
(* (agent/llm_client.c) over the socket functions of core/http.c.          *)
(*                                                                         *)
(* A try is one connection.  llm_chat tries again in two loops: until some *)
(* reply is there, and then while the reply is a server error.  A reply is *)
(* known by the number of its try; so are the memory it is stored in, the  *)
(* pointers into that memory, and the socket it came through.  What the    *)
(* service and the network do is free.                                     *)
(***************************************************************************)
EXTENDS Integers, Sequences

CONSTANT NetRetries  \* LLM_NET_RETRIES

ASSUME LLMClientAssumption == NetRetries \in Nat

VARIABLES
  op,        \* the function called
  pc,        \* what the call does next
  again,     \* llm_chat is in its second loop
  attempt,   \* the counter of the loop
  tries,     \* tries[t]: what became of try t
  socks,     \* the tries whose socket is open
  heap,      \* the tries whose reply is allocated
  response,  \* the try whose reply response points to, or Null
  body,      \* the try into whose reply body_start points, or Null
  status,    \* the status last parsed
  result     \* what the call returns; "killed" if it never does

vars == <<op, pc, again, attempt, tries, socks, heap, response, body, status, result>>

Null == 0
\* A try fails before there is a reply; or its reply has no end of head, or a
\* body that is not the JSON expected (cut short, for one), or is whole.
Failures == {"open", "refused", "unsent", "lost"}
Forms    == {"headless", "unusable", "whole"}
Tries    == [met : Failures, status : {0}] \cup [met : Forms, status : {200, 400, 500}]

This == Len(tries)
Met(m, s) == tries' = [tries EXCEPT ![This] = [met |-> m, status |-> s]]
ServerError(s) == s >= 500 /\ s < 600

End(r) == pc' = "end" /\ result' = r
On(p)  == pc' = p /\ UNCHANGED result
------------------------------------------------------------------------------
(***************************************************************************)
(* Faults, each standing in for the operator named in its comment.         *)
(***************************************************************************)
\* TriesLeft, with the bound one too high.
TriesLeftOneMore == attempt <= NetRetries

\* Retriable, if any status but 200 were.
RetriableUnless200(s) == s # 200

\* BodyOf, if only the first parse set body_start.
BodyOfFirst(t) == IF body = Null THEN t ELSE body

\* Dropped, without the free before the next try.
NotDropped == UNCHANGED heap
------------------------------------------------------------------------------
TriesLeft == attempt < NetRetries

\* What the second loop repeats.
Retriable(s) == ServerError(s)

\* What http_parse_response makes body_start point to.
BodyOf(t) == t

\* free(response), where another try follows or the call returns.
Dropped == heap' = heap \ {response}

\* A try has brought no reply.
NoReply ==
  IF op = "chat" /\ ~again /\ TriesLeft
  THEN On("connect") /\ attempt' = attempt + 1
  ELSE /\ UNCHANGED attempt
       /\ IF again THEN On("judge") ELSE End("error")

Init ==
  /\ op \in {"chat", "models"}
  /\ pc = "connect" /\ again = FALSE /\ attempt = 0
  /\ tries = <<>> /\ socks = {} /\ heap = {}
  /\ response = Null /\ body = Null /\ status = 0
  /\ result = "none"

\* tcp_connect.
Connect ==
  /\ pc = "connect"
  /\ \/ /\ tries' = Append(tries, [met |-> "open", status |-> 0])
        /\ socks' = socks \cup {Len(tries')}
        /\ On("send") /\ UNCHANGED attempt
     \/ /\ tries' = Append(tries, [met |-> "refused", status |-> 0])
        /\ NoReply /\ UNCHANGED socks
  /\ UNCHANGED <<op, again, heap, response, body, status>>

\* send_all of the header and, in llm_chat, of the body.
Send ==
  /\ pc = "send"
  /\ \/ On("receive") /\ UNCHANGED <<attempt, tries, socks>>
     \/ /\ Met("unsent", 0)
        /\ socks' = socks \ {This}
        /\ NoReply
  /\ UNCHANGED <<op, again, heap, response, body, status>>

\* The same, when the service has reset the connection: send raises SIGPIPE,
\* which nothing ignores, and the process ends.
SendKilled ==
  /\ pc = "send"
  /\ Met("unsent", 0)
  /\ socks' = {} /\ heap' = {}
  /\ End("killed")
  /\ UNCHANGED <<op, again, attempt, response, body, status>>

\* recv_all until the service closes: a reply as far as it came, or an error
\* or a silence longer than the timeout.
Receive ==
  /\ pc = "receive"
  /\ socks' = socks \ {This}
  /\ \/ /\ \E m \in Forms, s \in {200, 400, 500} : Met(m, s)
        /\ response' = This /\ heap' = heap \cup {This}
        /\ On("parse") /\ UNCHANGED attempt
     \/ /\ Met("lost", 0)
        /\ NoReply /\ UNCHANGED <<response, heap>>
  /\ UNCHANGED <<op, again, body, status>>

\* http_parse_response, and the way on from it.
Parse ==
  /\ pc = "parse" /\ tries[response].met # "headless"
  /\ status' = tries[response].status
  /\ body' = BodyOf(response)
  /\ attempt' = IF again THEN attempt ELSE 0
  /\ On(IF op = "chat" THEN "repeat" ELSE "judge")
  /\ UNCHANGED <<op, again, tries, socks, heap, response>>

ParseFails ==
  /\ pc = "parse" /\ tries[response].met = "headless"
  /\ Dropped /\ End("error")
  /\ UNCHANGED <<op, again, attempt, tries, socks, response, body, status>>

\* The head of the second loop.
Repeat ==
  /\ pc = "repeat" /\ Retriable(status) /\ TriesLeft
  /\ again' = TRUE /\ attempt' = attempt + 1
  /\ Dropped /\ response' = Null
  /\ On("connect")
  /\ UNCHANGED <<op, tries, socks, body, status>>

RepeatNoMore ==
  /\ pc = "repeat" /\ ~(Retriable(status) /\ TriesLeft)
  /\ On("judge")
  /\ UNCHANGED <<op, again, attempt, tries, socks, heap, response, body, status>>

\* A status other than 200.  The body goes into the error text: after a retry
\* that brought no reply, what is read has been freed.
Reject ==
  /\ op = "chat" /\ pc = "judge" /\ status # 200
  /\ \/ Dropped /\ End("error")
     \/ body \notin heap /\ heap' = {} /\ End("killed")
  /\ UNCHANGED <<op, again, attempt, tries, socks, response, body, status>>

\* The body is parsed, and the message and its tool calls are copied out of it.
Build ==
  /\ op = "chat" /\ pc = "judge" /\ status = 200
  /\ End(IF tries[body].met = "whole" THEN "ok" ELSE "error")
  /\ Dropped
  /\ UNCHANGED <<op, again, attempt, tries, socks, response, body, status>>

\* What fetch_models does with its reply.
ListModels ==
  /\ op = "models" /\ pc = "judge"
  /\ End(IF status = 200 /\ tries[body].met = "whole" THEN "ok" ELSE "error")
  /\ Dropped
  /\ UNCHANGED <<op, again, attempt, tries, socks, response, body, status>>

\* The call is over.
Rest == pc = "end" /\ UNCHANGED vars

Next ==
  \/ Connect \/ Send \/ SendKilled \/ Receive
  \/ Parse \/ ParseFails \/ Repeat \/ RepeatNoMore
  \/ Reject \/ Build \/ ListModels
  \/ Rest

Spec == Init /\ [][Next]_vars
------------------------------------------------------------------------------
(***************************************************************************)
(* Properties.                                                             *)
(***************************************************************************)
Replied(t) == tries[t].met \in Forms

\* The state of a call stays within its types; llm_chat makes no more than
\* 2 * LLM_NET_RETRIES + 1 tries in its two loops, fetch_models one
\* (llm_client.c:207, 245, 371).
TypeOK ==
  /\ op \in {"chat", "models"}
  /\ pc \in {"connect", "send", "receive", "parse", "repeat", "judge", "end"}
  /\ again \in BOOLEAN /\ attempt \in 0..NetRetries
  /\ tries \in Seq(Tries)
  /\ Len(tries) <= (IF op = "chat" THEN 2 * NetRetries + 1 ELSE 1)
  /\ socks \subseteq 1..Len(tries) /\ heap \subseteq 1..Len(tries)
  /\ response \in 0..Len(tries) /\ body \in 0..Len(tries)
  /\ status \in {0, 200, 400, 500}
  /\ result \in {"none", "ok", "error", "killed"}

\* What a call makes its answer of is the reply of the last try, a whole one
\* with status 200, in memory that is still its own, whatever tries came
\* before (llm_client.c:249, 265, 293).
AnswerIsLast ==
  pc = "judge" /\ status = 200 =>
    body = This /\ response = This /\ body \in heap /\ tries[body].status = 200

\* When a call returns, by whichever of its ways, no socket is open and no
\* reply allocated (llm_client.c:215, 230, 240, 262, 283; "Everything you
\* malloc / cJSON_Parse here has to be freed somewhere", 121).
NothingLeft == pc = "end" => socks = {} /\ heap = {}

\* A request is sent again only while every try before it has brought no reply
\* or a server error: what the service has answered is not asked for twice
\* (llm_client.c:223, 245).
NotAskedTwice ==
  [][Len(tries') > Len(tries) =>
       \A t \in 1..This : Replied(t) => ServerError(tries[t].status)]_vars

==============================================================================
