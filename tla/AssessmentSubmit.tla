-------------------------- MODULE AssessmentSubmit --------------------------
(***************************************************************************)
(* One call's assessment: the tool calls of the voice agent                *)
(* (app/agent/pipeline.py, app/agent/tools.py) and the endpoints they post *)
(* to (start_session and grade_answer of                                   *)
(* app/services/assessment_service.py).                                    *)
(*                                                                         *)
(* The agent posts with a timeout and retries once.  A barge-in cancels    *)
(* the tool handler, and what the LLM does next is free: it submits the    *)
(* same words or others, starts an assessment, or does nothing.  A request *)
(* whose client has left is still handled, as the endpoints are            *)
(* synchronous.  The position of an answer is the number of answers stored *)
(* before it, so a repeated request must be recognised, by its text and    *)
(* its age.                                                                *)
(*                                                                         *)
(* Transcripts are their normalised texts.  A stored answer also carries   *)
(* the number of the tool call that submitted it, the question the         *)
(* candidate had been asked, and whether the tool call before it had been  *)
(* cancelled: nothing in the code reads these three, they are what the     *)
(* properties are about.  So is astray.  Sessions are used by no other     *)
(* call (call_owns_session).                                               *)
(***************************************************************************)
EXTENDS Integers, Sequences, FiniteSets

CONSTANTS
  N,             \* number of questions of the role
  Text,          \* transcripts, normalised
  Blank,         \* the empty transcript
  Prompt,        \* TRUE: requests are handled in the order they were sent, and a
                 \* tool call, its retry and the LLM's next call after a barge-in
                 \* come within _DUP_WINDOW_SECONDS
  MaxUtterances, MaxStarts,  \* bounds
  MaxFaults      \* bound on interruptions and API crashes together

ASSUME NAssumption == N \in Nat \ {0}
ASSUME TextAssumption == Blank \notin Text /\ Prompt \in BOOLEAN
ASSUME BoundsAssumption == {MaxUtterances, MaxStarts, MaxFaults} \subseteq Nat

VARIABLES
  rows,      \* rows[s]: the assessment_answer rows of session s, by position
  recent,    \* recent[s]: the last row of s is within the duplicate window
  net,       \* requests sent and not handled yet
  posts,     \* number of requests sent
  reply,     \* the response to the request the agent waits for, or NoReply
  agent,     \* the tool handler and the binding of the connection
  starts, spoken, faults,  \* counters of what happened
  failed,    \* a tool call ended without the result of its request
  astray     \* a barge-in cancelled a start, and no later one has returned its session

vars == <<rows, recent, net, posts, reply, agent, starts, spoken, faults, failed, astray>>
database == <<rows, recent>>
counters == <<starts, spoken, faults>>

-----------------------------------------------------------------------------
\* rows is a sequence of sequences: its length is the number of assessment_session rows
Row == [text : Text, said : Nat, question : Nat, again : BOOLEAN]
LastText(s) == IF rows[s] = <<>> THEN Blank ELSE rows[s][Len(rows[s])].text

\* what a tool call asks for: sid = 0 stands for /assessment/start
ToolCall == [sid : Nat, text : Text \cup {Blank}, said : Nat, question : Nat, again : BOOLEAN]
NoCall == [sid |-> 0, text |-> Blank, said |-> 0, question |-> 0, again |-> FALSE]
Request == [id : Nat, call : ToolCall, phase : {"queued", "locked"}, count : Nat, dup : BOOLEAN]

\* a response: the session it is about, and the question to ask (N + 1: done, 0: error)
Reply == [sid : Nat, next : Nat]
NoReply == [sid |-> 0, next |-> 0]
Error == [sid |-> 1, next |-> 0]

Init ==
  /\ rows = <<>>
  /\ recent = <<>>
  /\ net = {}
  /\ posts = 0
  /\ reply = NoReply
  /\ agent = [state |-> "idle", call |-> NoCall, try |-> 0, sid |-> 0, asking |-> 0]
  /\ starts = 0 /\ spoken = 0 /\ faults = 0
  /\ failed = FALSE /\ astray = FALSE

-----------------------------------------------------------------------------
(***************************************************************************)
(* The agent.                                                              *)
(***************************************************************************)
Send(call, try) ==
  /\ posts' = posts + 1
  /\ net' = net \cup {[id |-> posts + 1, call |-> call, phase |-> "queued",
                       count |-> 0, dup |-> FALSE]}
  /\ reply' = NoReply
  /\ agent' = [agent EXCEPT !.state = "posting", !.call = call, !.try = try]

StartAssessment ==
  /\ agent.state # "posting"
  /\ starts < MaxStarts
  /\ starts' = starts + 1
  /\ Send(NoCall, 0)
  /\ UNCHANGED <<database, spoken, faults, failed, astray>>

\* the candidate said t to the question asked last, and the LLM submits it
SubmitAnswer(t) ==
  /\ agent.state # "posting"
  /\ agent.sid # 0
  /\ spoken < MaxUtterances
  /\ spoken' = spoken + 1
  /\ Send([sid |-> agent.sid, text |-> t, said |-> spoken + 1, question |-> agent.asking,
            again |-> agent.state = "interrupted"], 0)
  /\ UNCHANGED <<database, starts, faults, failed, astray>>

\* the tool call is over, the binding of the connection stays
Idle == [agent EXCEPT !.state = "idle", !.call = NoCall, !.try = 0]

WaitingFirstOnly == agent.state = "posting" /\ agent.try = 0  \* mutant: the retry has no timeout
Waiting == agent.state = "posting"

\* _post: a timeout, a refused connection or a 502/503/504 is retried once
Retry ==
  /\ Waiting
  /\ agent.try = 0
  /\ Send(agent.call, 1)
  /\ UNCHANGED <<database, counters, failed, astray>>

\* ... and the second one ends the tool call with {"ok": False}
GiveUp ==
  /\ Waiting
  /\ agent.try = 1
  /\ agent' = Idle
  /\ reply' = NoReply
  /\ failed' = TRUE
  /\ UNCHANGED <<database, net, posts, counters, astray>>

\* barge-in cancels the running tool handler; its requests are handled all the same
Interrupted ==
  /\ agent.state = "posting"
  /\ faults < MaxFaults
  /\ faults' = faults + 1
  /\ agent' = [Idle EXCEPT !.state = "interrupted"]
  /\ reply' = NoReply
  /\ astray' = (astray \/ agent.call.sid = 0)
  /\ UNCHANGED <<database, net, posts, starts, spoken, failed>>

\* the LLM reads the result: a new session and its first question, the next question
\* of the current one, or nothing it can use
ReceiveReply ==
  /\ agent.state = "posting"
  /\ reply # NoReply
  /\ agent' = IF reply = Error
                THEN Idle
                ELSE [Idle EXCEPT !.sid = reply.sid, !.asking = reply.next]
  /\ failed' = (failed \/ reply = Error)
  /\ astray' = (astray /\ agent.call.sid # 0)
  /\ reply' = NoReply
  /\ UNCHANGED <<database, net, posts, counters>>

-----------------------------------------------------------------------------
(***************************************************************************)
(* The endpoints.                                                          *)
(***************************************************************************)
InOrder(r) == Prompt => \A q \in net : q.phase = "queued" => r.id <= q.id

\* the response reaches the agent only if it still waits for this request
Respond(r, response) ==
  /\ net' = net \ {r}
  /\ reply' = IF agent.state = "posting" /\ r.id = posts THEN response ELSE reply

\* POST /assessment/start: every call inserts a session
StartSession(r) ==
  /\ InOrder(r)
  /\ r.call.sid = 0
  /\ rows' = Append(rows, <<>>)
  /\ recent' = Append(recent, FALSE)
  /\ Respond(r, [sid |-> Len(rows) + 1, next |-> 1])
  /\ UNCHANGED <<posts, agent, counters, failed, astray>>

LockedNever(s) == FALSE  \* mutant: the session is read without FOR UPDATE
Locked(s) == \E q \in net : q.phase = "locked" /\ q.call.sid = s

DuplicateNever(call) == FALSE  \* mutant: no idempotency guard
Duplicate(call) == call.text = LastText(call.sid) /\ recent[call.sid]

\* grade_answer: SELECT ... FOR UPDATE, then the last answer and the count
LockAndRead(r) ==
  /\ InOrder(r)
  /\ r.call.sid # 0 /\ r.phase = "queued"
  /\ ~Locked(r.call.sid)
  /\ net' = (net \ {r}) \cup {[r EXCEPT !.phase = "locked",
                                        !.count = Len(rows[r.call.sid]),
                                        !.dup = r.call.text = Blank \/ Duplicate(r.call)]}
  /\ UNCHANGED <<database, posts, reply, agent, counters, failed, astray>>

PendingSkips(answered) == IF answered < N THEN answered + 2 ELSE N + 1  \* mutant: one too far
Pending(answered) == answered + 1
ExhaustedLate(answered) == answered > N  \* mutant
Exhausted(answered) == answered >= N

\* _pending or _summary: where the session stands, nothing inserted
ReturnPending(r) ==
  /\ r.phase = "locked"
  /\ r.dup \/ Exhausted(r.count)
  /\ Respond(r, [sid |-> r.call.sid, next |-> Pending(r.count)])
  /\ UNCHANGED <<database, posts, agent, counters, failed, astray>>

\* the answer goes to the next question; (session_id, position) is UNIQUE and a
\* second row at the position would be an error 500
InsertAnswer(r) ==
  LET s == r.call.sid IN
  /\ r.phase = "locked"
  /\ ~r.dup /\ ~Exhausted(r.count)
  /\ IF r.count = Len(rows[s])
       THEN /\ rows' = [rows EXCEPT ![s] = Append(@, [text |-> r.call.text, said |-> r.call.said,
                                                      question |-> r.call.question,
                                                      again |-> r.call.again])]
            /\ recent' = [recent EXCEPT ![s] = TRUE]
            /\ Respond(r, [sid |-> s, next |-> r.count + 2])
       ELSE /\ Respond(r, Error)
            /\ UNCHANGED database
  /\ UNCHANGED <<posts, agent, counters, failed, astray>>

\* the API process dies: open transactions roll back, responses are lost, and the
\* agent's connection breaks with an exception _post does not catch
ApiCrash ==
  /\ faults < MaxFaults
  /\ faults' = faults + 1
  /\ net' = {}
  /\ reply' = NoReply
  /\ IF agent.state = "posting"
       THEN agent' = [agent EXCEPT !.state = "raised"] /\ failed' = TRUE
       ELSE UNCHANGED <<agent, failed>>
  /\ UNCHANGED <<database, posts, starts, spoken, astray>>

WindowElapses(s) ==
  /\ recent[s]
  /\ Prompt => agent.state \notin {"posting", "interrupted"} /\ net = {}
  /\ recent' = [recent EXCEPT ![s] = FALSE]
  /\ UNCHANGED <<rows, net, posts, reply, agent, counters, failed, astray>>

\* by_call: the newest session of the call
NewestSession == Len(rows)

-----------------------------------------------------------------------------
Handle(r) == StartSession(r) \/ LockAndRead(r) \/ ReturnPending(r) \/ InsertAnswer(r)

Next ==
  \/ StartAssessment
  \/ \E t \in Text \cup {Blank} : SubmitAnswer(t)
  \/ Retry \/ GiveUp \/ Interrupted \/ ReceiveReply
  \/ \E r \in net : Handle(r)
  \/ ApiCrash
  \/ \E s \in DOMAIN rows : WindowElapses(s)

Spec == Init /\ [][Next]_vars

\* The client's timer runs whatever the server does: a request that is not answered
\* in time is retried or given up.
FairSpec == Spec /\ WF_vars(Retry \/ GiveUp \/ ReceiveReply)
-----------------------------------------------------------------------------
(***************************************************************************)
(* Properties.                                                             *)
(***************************************************************************)

\* The values every variable takes.
TypeOK ==
  /\ rows \in Seq(Seq(Row)) /\ Len(rows) = Len(recent)
  /\ \A s \in DOMAIN rows : Len(rows[s]) <= N /\ recent[s] \in BOOLEAN
  /\ net \subseteq Request
  /\ reply \in Reply
  /\ agent \in [state : {"idle", "posting", "interrupted", "raised"}, call : ToolCall, try : 0..1,
                sid : 0..Len(rows), asking : 0..N + 1]
  /\ starts <= MaxStarts /\ spoken <= MaxUtterances
  /\ faults <= MaxFaults
  /\ failed \in BOOLEAN /\ astray \in BOOLEAN

\* The answer of one tool call is never stored twice, however its retry, timeouts, barge-ins
\* and lost responses combine (grade_answer's guard).
NoUtteranceTwice ==
  \A s \in DOMAIN rows : \A i, j \in DOMAIN rows[s] :
    rows[s][i].said = rows[s][j].said => i = j

\* The gap the guard leaves: after a barge-in the LLM submitted other words for the question
\* whose answer was being stored, and they took the position of the next question.
Reworded(answers, i) ==
  /\ i > 1 /\ answers[i].again
  /\ answers[i].question = answers[i - 1].question
  /\ answers[i].text # answers[i - 1].text

\* Until a tool call fails, every stored answer is the answer to the question at its position
\* or such a rewording: no retry, and no repetition in the same words after a barge-in, shifts
\* the answers, and after a rewording they are at their positions again.
Aligned ==
  ~failed => \A s \in DOMAIN rows : \A i \in DOMAIN rows[s] :
               rows[s][i].question = i \/ Reworded(rows[s], i)

\* When a tool call has returned its result, the agent asks the first question without an
\* answer, also after a repeat, a blank turn, an answer taken for a repeat or a barge-in, and
\* fills the session that by_call reports, also after a retried start.
AgentInStep ==
  ~failed /\ agent.state = "idle" /\ agent.sid # 0 =>
    /\ agent.asking = Len(rows[agent.sid]) + 1
    /\ ~astray => NewestSession = agent.sid

\* The count a transaction decides on is still the number of answers when it inserts.
CountIsCurrent ==
  \A r \in net : r.phase = "locked" => r.count = Len(rows[r.call.sid])

\* Every tool call ends, by its timeouts and its single retry: the LLM gets a result, or a
\* barge-in cancels the handler.  One that raised is no end (tools.py:22-24: it leaves the
\* LLM's function call hanging), so the promise is made of connections that do not break.
ToolCallEnds ==
  [](agent.state # "raised") =>
    (agent.state = "posting" ~> agent.state \in {"idle", "interrupted"})

=============================================================================
