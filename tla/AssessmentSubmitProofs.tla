----------------------- MODULE AssessmentSubmitProofs -----------------------
(***************************************************************************)
(* Proofs about AssessmentSubmit, for any number of questions, texts,      *)
(* utterances, retries, interruptions and crashes.                         *)
(*                                                                         *)
(* Base holds however requests are delayed and reordered: types, and what  *)
(* the row lock gives.  UInv and InStep need Prompt.  UInv says of every   *)
(* pending request that its session holds answers of older tool calls      *)
(* only, or its own as the last row; InStep, until a tool call fails, that *)
(* what is pending for the agent's session is about the question it asked  *)
(* last.                                                                   *)
(***************************************************************************)
EXTENDS AssessmentSubmit, TLAPS

AgentStates == {"idle", "posting", "interrupted", "raised"}
USE DEF AgentStates

CountersInv == posts \in Nat /\ starts \in Nat /\ spoken \in Nat /\ faults \in Nat

\* whoever names a session names one that exists
KnownInv ==
  /\ recent \in Seq(BOOLEAN)
  /\ \A r \in net : r.call.sid <= Len(rows)
  /\ agent.call.sid <= Len(rows)
  /\ reply.sid <= Len(rows) /\ reply.next <= N + 1

\* FOR UPDATE: a session is locked by one request; a blank transcript is never inserted
LockedInv ==
  /\ \A r \in net : r.phase = "locked" => r.call.sid # 0 /\ (r.call.text = Blank => r.dup)
  /\ \A r, q \in net :
       r.phase = "locked" /\ q.phase = "locked" /\ r.call.sid = q.call.sid => r = q

Base == TypeOK /\ CountersInv /\ KnownInv /\ LockedInv /\ CountIsCurrent

-----------------------------------------------------------------------------
(***************************************************************************)
(* What the steps do.                                                      *)
(***************************************************************************)
LEMMA NoCallType == NoCall \in ToolCall /\ NoCall.sid = 0
  BY DEF NoCall, ToolCall

\* A session that exists, and what a transaction on it may read.
LEMMA SessionRows ==
  ASSUME Base, NEW s \in 1..Len(rows)
  PROVE  /\ rows[s] \in Seq(Row) /\ Len(rows[s]) \in 0..N
         /\ recent[s] \in BOOLEAN
  BY NAssumption DEF Base, TypeOK, KnownInv

LEMMA RowTypes ==
  ASSUME Base, NEW s \in 1..Len(rows), NEW i \in 1..Len(rows[s])
  PROVE  rows[s][i] \in Row /\ rows[s][i].said \in Nat /\ rows[s][i].question \in Nat
<1>1. rows[s] \in Seq(Row)
  BY SessionRows
<1>2. rows[s][i] \in Row
  BY <1>1
<1>3. QED
  BY <1>2 DEF Row

LEMMA RequestTypes ==
  ASSUME Base, NEW r \in net
  PROVE  /\ r \in Request /\ r.call \in ToolCall /\ r.call.sid \in 0..Len(rows)
         /\ r.call.sid # 0 => r.call.sid \in 1..Len(rows)
         /\ r.phase = "locked" =>
              r.call.sid \in 1..Len(rows) /\ r.count = Len(rows[r.call.sid]) /\ r.count \in 0..N
<1>1. r \in Request /\ r.call \in ToolCall /\ r.call.sid \in Nat
  BY DEF Base, TypeOK, Request, ToolCall
<1>2. Len(rows) \in Nat /\ r.call.sid <= Len(rows)
  BY DEF Base, TypeOK, KnownInv
<1>3. r.phase = "locked" => r.call.sid # 0 /\ r.count = Len(rows[r.call.sid])
  BY DEF Base, LockedInv, CountIsCurrent
<1>4. QED
  BY <1>1, <1>2, <1>3, SessionRows

\* An answer is appended to the rows of its session.
LEMMA Appended ==
  ASSUME Base, NEW s \in 1..Len(rows), NEW row \in Row,
         rows' = [rows EXCEPT ![s] = Append(@, row)]
  PROVE  /\ rows' \in Seq(Seq(Row)) /\ Len(rows') = Len(rows) /\ DOMAIN rows' = DOMAIN rows
         /\ \A z \in 1..Len(rows) : z # s => rows'[z] = rows[z]
         /\ rows'[s] = Append(rows[s], row)
         /\ Len(rows'[s]) = Len(rows[s]) + 1
         /\ \A i \in 1..Len(rows[s]) : rows'[s][i] = rows[s][i]
         /\ rows'[s][Len(rows[s]) + 1] = row
<1>1. rows \in Seq(Seq(Row)) /\ rows[s] \in Seq(Row)
  BY SessionRows DEF Base, TypeOK
<1>2. Append(rows[s], row) \in Seq(Row)
  BY <1>1
<1>3. rows' \in Seq(Seq(Row)) /\ Len(rows') = Len(rows) /\ DOMAIN rows' = DOMAIN rows
  BY <1>1, <1>2
<1>4. rows'[s] = Append(rows[s], row) /\ \A z \in 1..Len(rows) : z # s => rows'[z] = rows[z]
  BY <1>1
<1>5. QED
  BY <1>1, <1>3, <1>4

\* A session is started.
LEMMA Started ==
  ASSUME Base, NEW new, new = Append(rows, <<>>)
  PROVE  /\ new \in Seq(Seq(Row)) /\ Len(new) = Len(rows) + 1 /\ Len(rows) \in Nat
         /\ \A z \in 1..Len(rows) : new[z] = rows[z]
         /\ new[Len(rows) + 1] = <<>>
<1>1. rows \in Seq(Seq(Row)) /\ <<>> \in Seq(Row)
  BY DEF Base, TypeOK
<1>2. QED
  BY <1>1

LEMMA BaseInit == Init => Base
<1> SUFFICES ASSUME Init PROVE Base
  OBVIOUS
<1>1. rows = <<>> /\ recent = <<>> /\ Len(rows) = 0 /\ Len(recent) = 0
  BY DEF Init
<1>2. rows \in Seq(Seq(Row)) /\ recent \in Seq(BOOLEAN) /\ DOMAIN rows = {}
  BY <1>1
<1>3. agent \in [state : AgentStates, call : ToolCall, try : 0..1,
                 sid : 0..Len(rows), asking : 0..N + 1]
  BY <1>1, NoCallType, NAssumption DEF Init
<1>4. starts <= MaxStarts /\ spoken <= MaxUtterances /\ faults <= MaxFaults
  BY BoundsAssumption DEF Init
<1>5. net \subseteq Request /\ reply \in Reply /\ failed \in BOOLEAN /\ astray \in BOOLEAN
  BY DEF Init, NoReply, Reply
<1>6. TypeOK
  BY <1>1, <1>2, <1>3, <1>4, <1>5 DEF TypeOK
<1>7. QED
  BY <1>1, <1>2, <1>6, NoCallType, NAssumption
     DEF Init, Base, CountersInv, KnownInv, LockedInv, CountIsCurrent, NoReply

\* A request is sent: the next id, and nothing is read yet.
LEMMA SendKeeps ==
  ASSUME Base, NEW call \in ToolCall, call.sid <= Len(rows), NEW try \in 0..1,
         Send(call, try), UNCHANGED <<database, failed, astray>>,
         starts' \in Nat, spoken' \in Nat, faults' \in Nat,
         starts' <= MaxStarts, spoken' <= MaxUtterances, faults' <= MaxFaults
  PROVE  Base'
<1> DEFINE q == [id |-> posts + 1, call |-> call, phase |-> "queued", count |-> 0, dup |-> FALSE]
<1>1. /\ posts' = posts + 1 /\ net' = net \cup {q} /\ reply' = NoReply
      /\ agent' = [agent EXCEPT !.state = "posting", !.call = call, !.try = try]
  BY DEF Send
<1>2. rows' = rows /\ recent' = recent /\ failed' = failed /\ astray' = astray
  BY DEF database
<1>3. q \in Request /\ q.phase = "queued" /\ q.call = call
  BY DEF Request, Base, CountersInv
<1>4. agent' \in [state : AgentStates, call : ToolCall, try : 0..1,
                  sid : 0..Len(rows), asking : 0..N + 1]
  BY <1>1 DEF Base, TypeOK
<1>5. agent'.call = call
  BY <1>1 DEF Base, TypeOK
<1>6. TypeOK'
  BY <1>1, <1>2, <1>3, <1>4 DEF Base, TypeOK, NoReply, Reply
<1>7. KnownInv' /\ CountersInv'
  BY <1>1, <1>2, <1>3, <1>5, NAssumption DEF Base, TypeOK, KnownInv, CountersInv, NoReply
<1> HIDE DEF q
<1>8. LockedInv' /\ CountIsCurrent'
  BY <1>1, <1>2, <1>3 DEF Base, LockedInv, CountIsCurrent
<1>9. QED
  BY <1>6, <1>7, <1>8 DEF Base

LEMMA AgentKeeps ==
  ASSUME Base,
         \/ StartAssessment \/ Retry \/ GiveUp \/ Interrupted \/ ReceiveReply
         \/ \E t \in Text \cup {Blank} : SubmitAnswer(t)
  PROVE  Base'
<1>1. /\ agent.call \in ToolCall /\ agent.call.sid <= Len(rows)
      /\ agent.sid \in 0..Len(rows) /\ agent.asking \in 0..N + 1 /\ agent.try \in 0..1
      /\ Len(rows) \in Nat /\ starts \in Nat /\ spoken \in Nat /\ faults \in Nat
      /\ starts <= MaxStarts /\ spoken <= MaxUtterances /\ faults <= MaxFaults
  BY DEF Base, TypeOK, KnownInv, CountersInv
<1>2. ASSUME UNCHANGED <<database, net, posts, starts, spoken>>, reply' = NoReply,
             faults' \in Nat, faults' <= MaxFaults, failed' \in BOOLEAN, astray' \in BOOLEAN,
             agent' \in [state : AgentStates, call : ToolCall, try : 0..1,
                         sid : 0..Len(rows), asking : 0..N + 1],
             agent'.call.sid <= Len(rows)
      PROVE  Base'
  <2>1. rows' = rows /\ recent' = recent /\ net' = net /\ posts' = posts
        /\ starts' = starts /\ spoken' = spoken
    BY <1>2 DEF database
  <2>2. TypeOK'
    BY <1>2, <2>1 DEF Base, TypeOK, NoReply, Reply
  <2>3. CountersInv' /\ KnownInv' /\ LockedInv' /\ CountIsCurrent'
    BY <1>2, <2>1, NAssumption
       DEF Base, TypeOK, CountersInv, KnownInv, LockedInv, CountIsCurrent, NoReply
  <2>4. QED
    BY <2>2, <2>3 DEF Base
<1>3. Idle \in [state : AgentStates, call : ToolCall, try : 0..1,
                sid : 0..Len(rows), asking : 0..N + 1]
      /\ Idle.call.sid <= Len(rows)
  <2>1. agent \in [state : AgentStates, call : ToolCall, try : 0..1,
                   sid : 0..Len(rows), asking : 0..N + 1]
    BY DEF Base, TypeOK
  <2>2. 0 \in 0..1 /\ NoCall.sid <= Len(rows)
    BY <1>1, NoCallType
  <2>3. Idle.call = NoCall
    BY <2>1 DEF Idle
  <2>4. QED
    BY <2>1, <2>2, <2>3, NoCallType DEF Idle
<1>4. CASE StartAssessment
  <2>1. Send(NoCall, 0) /\ UNCHANGED <<database, spoken, faults, failed, astray>>
        /\ starts' = starts + 1 /\ starts < MaxStarts
    BY <1>4 DEF StartAssessment
  <2>2. NoCall.sid <= Len(rows)
    BY <1>1, NoCallType
  <2>3. UNCHANGED <<database, failed, astray>> /\ spoken' = spoken /\ faults' = faults
    BY <2>1
  <2>4. starts' \in Nat /\ starts' <= MaxStarts
    BY <1>1, <2>1, BoundsAssumption
  <2>5. QED
    BY <1>1, <2>1, <2>2, <2>3, <2>4, NoCallType, SendKeeps
<1>5. CASE \E t \in Text \cup {Blank} : SubmitAnswer(t)
  <2>1. PICK t \in Text \cup {Blank} : SubmitAnswer(t)
    BY <1>5
  <2> DEFINE call == [sid |-> agent.sid, text |-> t, said |-> spoken + 1, question |-> agent.asking,
                      again |-> agent.state = "interrupted"]
  <2>2. Send(call, 0) /\ UNCHANGED <<database, starts, faults, failed, astray>>
        /\ spoken' = spoken + 1 /\ spoken < MaxUtterances
    BY <2>1 DEF SubmitAnswer
  <2>3. call \in ToolCall /\ call.sid <= Len(rows)
    BY <1>1, NAssumption DEF ToolCall
  <2>4. UNCHANGED <<database, failed, astray>> /\ starts' = starts /\ faults' = faults
    BY <2>2
  <2>5. spoken' \in Nat /\ spoken' <= MaxUtterances
    BY <1>1, <2>2, BoundsAssumption
  <2> HIDE DEF call
  <2>6. QED
    BY <1>1, <2>2, <2>3, <2>4, <2>5, SendKeeps
<1>6. CASE Retry
  <2>1. Send(agent.call, 1) /\ UNCHANGED <<database, counters, failed, astray>>
    BY <1>6 DEF Retry
  <2>2. UNCHANGED <<database, failed, astray>> /\ starts' = starts /\ spoken' = spoken /\ faults' = faults
    BY <2>1 DEF counters
  <2>3. QED
    BY <1>1, <2>1, <2>2, SendKeeps
<1>7. CASE Interrupted
  <2>1. agent' = [Idle EXCEPT !.state = "interrupted"] /\ reply' = NoReply
        /\ faults' = faults + 1 /\ faults < MaxFaults /\ astray' = (astray \/ agent.call.sid = 0)
        /\ UNCHANGED <<database, net, posts, starts, spoken, failed>>
    BY <1>7 DEF Interrupted
  <2>2. agent' \in [state : AgentStates, call : ToolCall, try : 0..1,
                    sid : 0..Len(rows), asking : 0..N + 1]
        /\ agent'.call.sid <= Len(rows)
    BY <1>3, <2>1
  <2>3. faults' \in Nat /\ faults' <= MaxFaults
    BY <1>1, <2>1, BoundsAssumption
  <2>4. failed' \in BOOLEAN /\ astray' \in BOOLEAN
    BY <2>1 DEF Base, TypeOK
  <2>5. QED
    BY <1>2, <2>1, <2>2, <2>3, <2>4
<1>8. CASE GiveUp
  <2>1. agent' = Idle /\ reply' = NoReply /\ failed' = TRUE
        /\ UNCHANGED <<database, net, posts, starts, spoken, faults, astray>>
    BY <1>8 DEF GiveUp, counters
  <2>2. astray' \in BOOLEAN
    BY <2>1 DEF Base, TypeOK
  <2>3. QED
    BY <1>1, <1>2, <1>3, <2>1, <2>2
<1>9. CASE ReceiveReply
  <2>1. /\ agent' = IF reply = Error THEN Idle
                    ELSE [Idle EXCEPT !.sid = reply.sid, !.asking = reply.next]
        /\ failed' = (failed \/ reply = Error)
        /\ reply' = NoReply
        /\ astray' = (astray /\ agent.call.sid # 0)
        /\ UNCHANGED <<database, net, posts, starts, spoken, faults>>
    BY <1>9 DEF ReceiveReply, counters
  <2>2. reply.sid \in 0..Len(rows) /\ reply.next \in 0..N + 1
    BY NAssumption DEF Base, TypeOK, KnownInv, Reply
  <2>3. agent' \in [state : AgentStates, call : ToolCall, try : 0..1,
                    sid : 0..Len(rows), asking : 0..N + 1]
        /\ agent'.call.sid <= Len(rows)
    BY <1>3, <2>1, <2>2
  <2>4. failed' \in BOOLEAN /\ astray' \in BOOLEAN
    BY <2>1 DEF Base, TypeOK
  <2>5. QED
    BY <1>1, <1>2, <2>1, <2>3, <2>4
<1>10. QED
  BY <1>4, <1>5, <1>6, <1>7, <1>8, <1>9

-----------------------------------------------------------------------------
\* A request is answered: it leaves the net, and the agent gets the response or it is lost.
LEMMA RespondTypes ==
  ASSUME Base, NEW r \in net, NEW response, Respond(r, response)
  PROVE  /\ net' = net \ {r}
         /\ reply' \in {response, reply}
  BY DEF Respond

LEMMA StartSessionKeeps ==
  ASSUME Base, NEW r \in net, StartSession(r)
  PROVE  Base'
<1>1. /\ rows' = Append(rows, <<>>) /\ recent' = Append(recent, FALSE)
      /\ Respond(r, [sid |-> Len(rows) + 1, next |-> 1])
      /\ posts' = posts /\ agent' = agent /\ UNCHANGED counters /\ failed' = failed /\ astray' = astray
  BY DEF StartSession
<1>2. /\ rows' \in Seq(Seq(Row)) /\ Len(rows') = Len(rows) + 1 /\ Len(rows) \in Nat
      /\ \A z \in 1..Len(rows) : rows'[z] = rows[z]
      /\ rows'[Len(rows) + 1] = <<>>
  BY <1>1, Started
<1>3. recent \in Seq(BOOLEAN) /\ Len(recent) = Len(rows)
  BY DEF Base, TypeOK, KnownInv
<1>4. /\ recent' \in Seq(BOOLEAN) /\ Len(recent') = Len(rows')
      /\ DOMAIN rows' = 1..Len(rows) + 1
  BY <1>1, <1>2, <1>3
<1>5. \A s \in DOMAIN rows' : Len(rows'[s]) <= N /\ recent'[s] \in BOOLEAN
  <2> SUFFICES ASSUME NEW s \in 1..Len(rows) + 1
               PROVE  Len(rows'[s]) <= N /\ recent'[s] \in BOOLEAN
    BY <1>4
  <2>1. recent'[s] \in BOOLEAN
    BY <1>2, <1>4
  <2>2. CASE s = Len(rows) + 1
    BY <1>2, <2>1, <2>2, NAssumption
  <2>3. CASE s \in 1..Len(rows)
    <3>1. rows'[s] = rows[s] /\ Len(rows[s]) \in 0..N
      BY <1>2, <2>3, SessionRows
    <3>2. QED
      BY <2>1, <3>1, NAssumption
  <2>4. QED
    BY <1>2, <2>2, <2>3
<1>6. /\ net' = net \ {r}
      /\ reply' \in {[sid |-> Len(rows) + 1, next |-> 1], reply}
  BY <1>1, RespondTypes
<1>7. reply' \in Reply /\ reply'.sid <= Len(rows') /\ reply'.next <= N + 1
  BY <1>2, <1>6, NAssumption DEF Base, TypeOK, KnownInv, Reply
<1>8. agent' \in [state : AgentStates, call : ToolCall, try : 0..1,
                  sid : 0..Len(rows'), asking : 0..N + 1]
      /\ agent'.call.sid <= Len(rows')
  <2>1. agent \in [state : AgentStates, call : ToolCall, try : 0..1,
                   sid : 0..Len(rows), asking : 0..N + 1]
        /\ agent.call.sid <= Len(rows) /\ agent.call.sid \in Nat
    BY DEF Base, TypeOK, KnownInv, ToolCall
  <2>2. QED
    BY <1>1, <1>2, <2>1
<1>9. \A q \in net' : q \in net /\ q.call.sid <= Len(rows')
                     /\ (q.phase = "locked" => rows'[q.call.sid] = rows[q.call.sid])
  BY <1>2, <1>6, RequestTypes
<1>10. TypeOK'
  BY <1>1, <1>2, <1>4, <1>5, <1>6, <1>7, <1>8 DEF Base, TypeOK, counters
<1>11. CountersInv' /\ KnownInv'
  BY <1>1, <1>4, <1>7, <1>8, <1>9 DEF Base, CountersInv, KnownInv, counters
<1>12. LockedInv' /\ CountIsCurrent'
  BY <1>9 DEF Base, LockedInv, CountIsCurrent
<1>13. QED
  BY <1>10, <1>11, <1>12 DEF Base

LEMMA LockAndReadKeeps ==
  ASSUME Base, NEW r \in net, LockAndRead(r)
  PROVE  Base'
<1> DEFINE l == [r EXCEPT !.phase = "locked", !.count = Len(rows[r.call.sid]),
                          !.dup = r.call.text = Blank \/ Duplicate(r.call)]
<1>1. /\ r.call.sid # 0 /\ ~Locked(r.call.sid)
      /\ net' = (net \ {r}) \cup {l}
      /\ rows' = rows /\ recent' = recent /\ posts' = posts /\ reply' = reply /\ agent' = agent
      /\ UNCHANGED counters /\ failed' = failed /\ astray' = astray
  BY DEF LockAndRead, database
<1>2. r \in Request /\ Len(rows[r.call.sid]) \in Nat
  BY <1>1, RequestTypes, SessionRows
<1>3. /\ l \in Request /\ l.call = r.call /\ l.phase = "locked"
      /\ l.count = Len(rows[l.call.sid]) /\ (l.call.text = Blank => l.dup)
  BY <1>2 DEF Request
<1> HIDE DEF l
<1>4. TypeOK'
  BY <1>1, <1>3 DEF Base, TypeOK, counters
<1>5. CountersInv' /\ KnownInv'
  BY <1>1, <1>3 DEF Base, CountersInv, KnownInv, counters
<1>6. LockedInv'
  <2>1. \A q \in net : q.phase = "locked" => q.call.sid # l.call.sid
    BY <1>1, <1>3 DEF Locked
  <2>2. QED
    BY <1>1, <1>3, <2>1 DEF Base, LockedInv
<1>7. CountIsCurrent'
  BY <1>1, <1>3 DEF Base, CountIsCurrent
<1>8. QED
  BY <1>4, <1>5, <1>6, <1>7 DEF Base

\* A transaction that ends without writing rows.
LEMMA RespondKeeps ==
  ASSUME Base, NEW r \in net, NEW response, Respond(r, response),
         response \in Reply, response.sid <= Len(rows), response.next <= N + 1,
         UNCHANGED <<database, posts, agent, counters, failed, astray>>
  PROVE  Base'
<1>1. /\ net' = net \ {r} /\ reply' \in {response, reply}
      /\ rows' = rows /\ recent' = recent /\ posts' = posts /\ agent' = agent
      /\ UNCHANGED counters /\ failed' = failed /\ astray' = astray
  BY RespondTypes DEF database
<1>2. TypeOK'
  BY <1>1 DEF Base, TypeOK, counters
<1>3. CountersInv' /\ KnownInv'
  BY <1>1 DEF Base, CountersInv, KnownInv, counters
<1>4. LockedInv' /\ CountIsCurrent'
  BY <1>1 DEF Base, LockedInv, CountIsCurrent
<1>5. QED
  BY <1>2, <1>3, <1>4 DEF Base

LEMMA ReturnPendingKeeps ==
  ASSUME Base, NEW r \in net, ReturnPending(r)
  PROVE  Base'
<1> DEFINE response == [sid |-> r.call.sid, next |-> Pending(r.count)]
<1>1. /\ r.phase = "locked" /\ Respond(r, response)
      /\ UNCHANGED <<database, posts, agent, counters, failed, astray>>
  BY DEF ReturnPending
<1>2. r.call.sid \in 1..Len(rows) /\ r.count \in 0..N /\ Len(rows) \in Nat
  BY <1>1, RequestTypes DEF Base, TypeOK
<1>3. response \in Reply /\ response.sid <= Len(rows) /\ response.next <= N + 1
  BY <1>2, NAssumption DEF Reply, Pending
<1> HIDE DEF response
<1>4. QED
  BY <1>1, <1>3, RespondKeeps

\* What an insertion does.  The unique constraint never fails: the count is current.
LEMMA InsertEffect ==
  ASSUME Base, NEW r \in net, InsertAnswer(r)
  PROVE  LET s == r.call.sid
             row == [text |-> r.call.text, said |-> r.call.said, question |-> r.call.question,
                   again |-> r.call.again]
         IN  /\ r.phase = "locked" /\ ~r.dup /\ s \in 1..Len(rows) /\ row \in Row
             /\ r.count = Len(rows[s]) /\ r.count \in 0..N - 1
             /\ rows' = [rows EXCEPT ![s] = Append(@, row)]
             /\ recent' = [recent EXCEPT ![s] = TRUE]
             /\ Respond(r, [sid |-> s, next |-> r.count + 2])
             /\ posts' = posts /\ agent' = agent /\ UNCHANGED counters /\ failed' = failed /\ astray' = astray
<1> DEFINE s == r.call.sid
           row == [text |-> r.call.text, said |-> r.call.said, question |-> r.call.question,
                   again |-> r.call.again]
<1>1. /\ r.phase = "locked" /\ ~r.dup /\ ~Exhausted(r.count)
      /\ posts' = posts /\ agent' = agent /\ UNCHANGED counters /\ failed' = failed /\ astray' = astray
  BY DEF InsertAnswer
<1>2. s \in 1..Len(rows) /\ r.count = Len(rows[s]) /\ r.count \in 0..N /\ r.call \in ToolCall
  BY <1>1, RequestTypes
<1>3. r.count \in 0..N - 1
  BY <1>1, <1>2, NAssumption DEF Exhausted
<1>4. /\ rows' = [rows EXCEPT ![s] = Append(@, row)]
      /\ recent' = [recent EXCEPT ![s] = TRUE]
      /\ Respond(r, [sid |-> s, next |-> r.count + 2])
  BY <1>2 DEF InsertAnswer
<1>5. r.call.text \in Text
  <2>1. r.call.text # Blank
    BY <1>1 DEF Base, LockedInv
  <2>2. QED
    BY <1>2, <2>1 DEF ToolCall
<1>6. row \in Row
  BY <1>2, <1>5 DEF Row, ToolCall
<1>7. QED
  BY <1>1, <1>2, <1>3, <1>4, <1>6

LEMMA InsertKeeps ==
  ASSUME Base, NEW r \in net, InsertAnswer(r)
  PROVE  Base'
<1> DEFINE s == r.call.sid
           row == [text |-> r.call.text, said |-> r.call.said, question |-> r.call.question,
                   again |-> r.call.again]
<1>1. /\ r.phase = "locked" /\ s \in 1..Len(rows) /\ row \in Row
      /\ r.count = Len(rows[s]) /\ r.count \in 0..N - 1
      /\ rows' = [rows EXCEPT ![s] = Append(@, row)]
      /\ recent' = [recent EXCEPT ![s] = TRUE]
      /\ Respond(r, [sid |-> s, next |-> r.count + 2])
      /\ posts' = posts /\ agent' = agent /\ UNCHANGED counters /\ failed' = failed /\ astray' = astray
  BY InsertEffect
<1> HIDE DEF row
<1>2. /\ rows' \in Seq(Seq(Row)) /\ Len(rows') = Len(rows) /\ DOMAIN rows' = DOMAIN rows
      /\ \A z \in 1..Len(rows) : z # s => rows'[z] = rows[z]
      /\ Len(rows'[s]) = Len(rows[s]) + 1
  BY <1>1, Appended
<1>3. recent \in Seq(BOOLEAN) /\ Len(recent) = Len(rows) /\ Len(rows) \in Nat
      /\ DOMAIN rows = 1..Len(rows)
  BY DEF Base, TypeOK, KnownInv
<1>4. recent' \in Seq(BOOLEAN) /\ Len(recent') = Len(rows')
  BY <1>1, <1>2, <1>3
<1>5. \A z \in DOMAIN rows' : Len(rows'[z]) <= N /\ recent'[z] \in BOOLEAN
  <2> SUFFICES ASSUME NEW z \in 1..Len(rows)
               PROVE  Len(rows'[z]) <= N /\ recent'[z] \in BOOLEAN
    BY <1>2, <1>3
  <2>1. recent'[z] \in BOOLEAN
    BY <1>2, <1>3, <1>4
  <2>2. CASE z = s
    <3>1. r.count + 1 <= N
      BY <1>1, NAssumption
    <3>2. Len(rows'[z]) = r.count + 1
      BY <1>1, <1>2, <2>2
    <3>3. QED
      BY <2>1, <3>1, <3>2
  <2>3. CASE z # s
    <3>1. rows'[z] = rows[z] /\ Len(rows[z]) \in 0..N
      BY <1>2, <2>3, SessionRows
    <3>2. QED
      BY <2>1, <3>1, NAssumption
  <2>4. QED
    BY <2>2, <2>3
<1>6. net' = net \ {r} /\ reply' \in {[sid |-> s, next |-> r.count + 2], reply}
  BY <1>1, RespondTypes
<1>7. reply' \in Reply /\ reply'.sid <= Len(rows) /\ reply'.next <= N + 1
  <2> DEFINE response == [sid |-> s, next |-> r.count + 2]
  <2>1. s \in Nat /\ s <= Len(rows) /\ r.count + 2 \in Nat /\ r.count + 2 <= N + 1
    BY <1>1, <1>3, NAssumption
  <2>2. response \in Reply /\ response.sid <= Len(rows) /\ response.next <= N + 1
    BY <2>1 DEF Reply
  <2>3. reply \in Reply /\ reply.sid <= Len(rows) /\ reply.next <= N + 1
    BY DEF Base, TypeOK, KnownInv
  <2>4. reply' \in {response, reply}
    BY <1>6
  <2> HIDE DEF response
  <2>5. QED
    BY <2>2, <2>3, <2>4
<1>8. \A q \in net' : q \in net /\ (q.phase = "locked" => rows'[q.call.sid] = rows[q.call.sid])
  <2> SUFFICES ASSUME NEW q \in net \ {r}, q.phase = "locked"
               PROVE  rows'[q.call.sid] = rows[q.call.sid]
    BY <1>6
  <2>1. q.call.sid # s
    BY <1>1 DEF Base, LockedInv
  <2>2. q.call.sid \in 1..Len(rows)
    BY RequestTypes
  <2>3. QED
    BY <1>2, <2>1, <2>2
<1>9. TypeOK'
  BY <1>1, <1>2, <1>4, <1>5, <1>6, <1>7 DEF Base, TypeOK, counters
<1>10. CountersInv' /\ KnownInv'
  BY <1>1, <1>2, <1>4, <1>7, <1>8 DEF Base, CountersInv, KnownInv, counters
<1>11. LockedInv' /\ CountIsCurrent'
  BY <1>8 DEF Base, LockedInv, CountIsCurrent
<1>12. QED
  BY <1>9, <1>10, <1>11 DEF Base

LEMMA CrashKeeps ==
  ASSUME Base, ApiCrash
  PROVE  Base'
<1>1. /\ faults' = faults + 1 /\ faults < MaxFaults /\ net' = {} /\ reply' = NoReply
      /\ rows' = rows /\ recent' = recent /\ posts' = posts
      /\ starts' = starts /\ spoken' = spoken
      /\ agent' \in {agent, [agent EXCEPT !.state = "raised"]} /\ failed' \in {failed, TRUE}
      /\ astray' = astray
  BY DEF ApiCrash, database
<1>2. agent' \in [state : AgentStates, call : ToolCall, try : 0..1,
                  sid : 0..Len(rows), asking : 0..N + 1]
      /\ agent'.call = agent.call
  BY <1>1 DEF Base, TypeOK
<1>3. faults' \in Nat /\ faults' <= MaxFaults
  BY <1>1, BoundsAssumption DEF Base, CountersInv
<1>4. TypeOK'
  BY <1>1, <1>2, <1>3 DEF Base, TypeOK, NoReply, Reply
<1>5. CountersInv' /\ KnownInv' /\ LockedInv' /\ CountIsCurrent'
  BY <1>1, <1>2, <1>3, NAssumption
     DEF Base, TypeOK, CountersInv, KnownInv, LockedInv, CountIsCurrent, NoReply
<1>6. QED
  BY <1>4, <1>5 DEF Base

LEMMA ElapseKeeps ==
  ASSUME Base, NEW s \in DOMAIN rows, WindowElapses(s)
  PROVE  Base'
<1>1. /\ recent' = [recent EXCEPT ![s] = FALSE]
      /\ rows' = rows /\ net' = net /\ posts' = posts /\ reply' = reply /\ agent' = agent
      /\ UNCHANGED counters /\ failed' = failed /\ astray' = astray
  BY DEF WindowElapses
<1>2. recent \in Seq(BOOLEAN) /\ Len(recent) = Len(rows) /\ DOMAIN rows = 1..Len(rows)
  BY DEF Base, TypeOK, KnownInv
<1>3. recent' \in Seq(BOOLEAN) /\ Len(recent') = Len(rows)
      /\ \A z \in DOMAIN rows : recent'[z] \in BOOLEAN
  <2>1. FALSE \in BOOLEAN
    OBVIOUS
  <2>2. recent' \in Seq(BOOLEAN) /\ Len(recent') = Len(recent)
    BY <1>1, <1>2, <2>1
  <2>3. \A z \in 1..Len(recent') : recent'[z] \in BOOLEAN
    BY <2>2
  <2>4. QED
    BY <1>2, <2>2, <2>3
<1>4. TypeOK'
  BY <1>1, <1>3 DEF Base, TypeOK, counters
<1>5. CountersInv' /\ KnownInv'
  BY <1>1, <1>3 DEF Base, CountersInv, KnownInv, counters
<1>6. LockedInv' /\ CountIsCurrent'
  BY <1>1 DEF Base, LockedInv, CountIsCurrent
<1>7. QED
  BY <1>4, <1>5, <1>6 DEF Base

LEMMA BaseNext == Base /\ [Next]_vars => Base'
<1> SUFFICES ASSUME Base, [Next]_vars PROVE Base'
  OBVIOUS
<1>1. CASE \E r \in net : Handle(r)
  BY <1>1, StartSessionKeeps, LockAndReadKeeps, ReturnPendingKeeps, InsertKeeps DEF Handle
<1>2. CASE UNCHANGED vars
  BY <1>2 DEF vars, database, counters, Base, TypeOK, CountersInv, KnownInv, LockedInv,
              CountIsCurrent
<1>3. QED
  BY <1>1, <1>2, AgentKeeps, CrashKeeps, ElapseKeeps DEF Next

\* Every variable keeps to its values, whatever is lost, repeated or reordered.
THEOREM TypeCorrect == Spec => []TypeOK
<1>1. Base => TypeOK
  BY DEF Base
<1>2. QED
  BY BaseInit, BaseNext, <1>1, PTL DEF Spec

\* The count that a transaction decides on is still the number of answers when it inserts,
\* so that the unique constraint never turns an answer into an error.
THEOREM CountStaysCurrent == Spec => []CountIsCurrent
<1>1. Base => CountIsCurrent
  BY DEF Base
<1>2. QED
  BY BaseInit, BaseNext, <1>1, PTL DEF Spec

-----------------------------------------------------------------------------
(***************************************************************************)
(* Utterances.  With requests handled in the order they were sent (Prompt) *)
(* a pending request of an utterance that is stored finds it as the last   *)
(* row of its session, within the duplicate window: the guard catches it.  *)
(***************************************************************************)
\* ids tell requests apart, and a request in a transaction was sent before those that wait
OrderInv ==
  /\ \A r \in net : r.id \in 1..posts
  /\ \A r, q \in net : r.id = q.id => r = q
  /\ \A r, q \in net : r.phase = "locked" /\ q.phase = "queued" => r.id < q.id

Answering(call) == call.sid # 0
AgentAnswers == agent.state = "posting" /\ Answering(agent.call)

\* what the session holds came before the utterance of the call, or the last row is it
Older(call) == \A i \in 1..Len(rows[call.sid]) : rows[call.sid][i].said < call.said
Repeats(call) ==
  LET own == rows[call.sid] IN
  /\ Len(own) > 0 /\ own[Len(own)].said = call.said /\ own[Len(own)].text = call.text
  /\ recent[call.sid]
  /\ \A i \in 1..Len(own) - 1 : own[i].said < call.said
Standing(call) == Older(call) \/ Repeats(call)

RowsInv ==
  \A s \in 1..Len(rows) :
    /\ \A i \in 1..Len(rows[s]) : rows[s][i].said <= spoken
    /\ \A i, j \in 1..Len(rows[s]) : i < j => rows[s][i].said < rows[s][j].said

CallsInv ==
  /\ \A r \in net : Answering(r.call) => r.call.said <= spoken /\ Standing(r.call)
  /\ AgentAnswers => agent.call.said = spoken /\ Standing(agent.call)
  /\ \A r, q \in net : Answering(r.call) /\ Answering(q.call) =>
       /\ r.id < q.id => r.call.said <= q.call.said
       /\ r.call.said = q.call.said => r.call = q.call
  /\ \A r \in net : Answering(r.call) /\ AgentAnswers /\ r.call.said = agent.call.said
       => r.call = agent.call
  /\ \A r \in net : r.phase = "locked" /\ ~r.dup => Older(r.call)

LEMMA OrderNext == Base /\ Prompt /\ OrderInv /\ [Next]_vars => OrderInv'
<1> SUFFICES ASSUME Base, Prompt, OrderInv, [Next]_vars PROVE OrderInv'
  OBVIOUS
<1>1. ASSUME NEW call, NEW try, Send(call, try) PROVE OrderInv'
  <2> DEFINE q == [id |-> posts + 1, call |-> call, phase |-> "queued", count |-> 0, dup |-> FALSE]
  <2>1. posts' = posts + 1 /\ net' = net \cup {q}
    BY <1>1 DEF Send
  <2>2. q.id = posts + 1 /\ q.phase = "queued" /\ posts \in Nat
    BY DEF Base, CountersInv
  <2> HIDE DEF q
  <2>3. QED
    BY <2>1, <2>2 DEF OrderInv
<1>2. ASSUME net' \subseteq net, posts' = posts PROVE OrderInv'
  BY <1>2 DEF OrderInv
<1>3. CASE \E r \in net : LockAndRead(r)
  <2>1. PICK r \in net : LockAndRead(r)
    BY <1>3
  <2> DEFINE l == [r EXCEPT !.phase = "locked", !.count = Len(rows[r.call.sid]),
                            !.dup = r.call.text = Blank \/ Duplicate(r.call)]
  <2>2. /\ r.phase = "queued" /\ net' = (net \ {r}) \cup {l} /\ posts' = posts
        /\ \A q \in net : q.phase = "queued" => r.id <= q.id
    BY <2>1 DEF LockAndRead, InOrder
  <2>3. l.id = r.id /\ l.phase = "locked"
    BY RequestTypes DEF Request
  <2> HIDE DEF l
  <2>4. \A q \in net \ {r} : q.phase = "queued" => r.id < q.id
    BY <2>2 DEF OrderInv
  <2>5. \A q \in net \ {r} : q.id # r.id
    BY DEF OrderInv
  <2>6. QED
    BY <2>2, <2>3, <2>4, <2>5 DEF OrderInv
<1>4. CASE \E r \in net : StartSession(r) \/ ReturnPending(r) \/ InsertAnswer(r)
  BY <1>2, <1>4 DEF StartSession, ReturnPending, InsertAnswer, Respond
<1>5. CASE StartAssessment \/ Retry \/ \E t \in Text \cup {Blank} : SubmitAnswer(t)
  BY <1>1, <1>5 DEF StartAssessment, Retry, SubmitAnswer
<1>6. CASE GiveUp \/ Interrupted \/ ReceiveReply \/ ApiCrash \/ \E s \in DOMAIN rows : WindowElapses(s)
  BY <1>2, <1>6 DEF GiveUp, Interrupted, ReceiveReply, ApiCrash, WindowElapses
<1>7. CASE UNCHANGED vars
  BY <1>2, <1>7 DEF vars
<1>8. QED
  BY <1>3, <1>4, <1>5, <1>6, <1>7 DEF Next, Handle

LEMMA SameRows ==
  ASSUME NEW call, rows'[call.sid] = rows[call.sid], recent'[call.sid] = recent[call.sid]
  PROVE  /\ Older(call) => Older(call)'
         /\ Repeats(call) => Repeats(call)'
         /\ Standing(call) => Standing(call)'
  BY DEF Older, Repeats, Standing

LEMMA SendKeepsCalls ==
  ASSUME Base, OrderInv, CallsInv, NEW call \in ToolCall, NEW try, Send(call, try),
         rows' = rows, recent' = recent, spoken' \in Nat, spoken <= spoken',
         Answering(call) =>
           /\ call.said = spoken' /\ Standing(call)
           /\ \A r \in net : Answering(r.call) /\ r.call.said = call.said => r.call = call
  PROVE  CallsInv'
<1> DEFINE q == [id |-> posts + 1, call |-> call, phase |-> "queued", count |-> 0, dup |-> FALSE]
<1>1. net' = net \cup {q} /\ agent' = [agent EXCEPT !.state = "posting", !.call = call, !.try = try]
  BY DEF Send
<1>2. q.id = posts + 1 /\ q.phase = "queued" /\ q.call = call /\ posts \in Nat
  BY DEF Base, CountersInv
<1>3. agent'.call = call
  BY <1>1 DEF Base, TypeOK
<1> HIDE DEF q
<1>4. \A c : Standing(c)' = Standing(c) /\ Older(c)' = Older(c)
  BY DEF Standing, Older, Repeats
<1>5. \A r \in net : r.id < q.id /\ r.call \in ToolCall /\ r.call.said \in Nat
  BY <1>2, RequestTypes DEF OrderInv, ToolCall
<1>6. spoken \in Nat
  BY DEF Base, CountersInv
<1>7. \A r \in net' : Answering(r.call) => r.call.said <= spoken' /\ Standing(r.call)'
  BY <1>1, <1>2, <1>4, <1>5, <1>6 DEF CallsInv
<1>8. AgentAnswers' => agent'.call.said = spoken' /\ Standing(agent.call)'
  BY <1>3 DEF AgentAnswers, Answering, Standing, Older, Repeats
<1>9. \A r, z \in net' : Answering(r.call) /\ Answering(z.call) =>
        /\ r.id < z.id => r.call.said <= z.call.said
        /\ r.call.said = z.call.said => r.call = z.call
  <2> SUFFICES ASSUME NEW r \in net', NEW z \in net', Answering(r.call), Answering(z.call)
               PROVE  /\ r.id < z.id => r.call.said <= z.call.said
                      /\ r.call.said = z.call.said => r.call = z.call
    OBVIOUS
  <2>1. CASE r \in net /\ z \in net
    BY <2>1 DEF CallsInv
  <2>2. CASE r \in net /\ z = q
    BY <1>2, <1>5, <1>6, <2>2 DEF CallsInv
  <2>3. CASE r = q /\ z \in net
    BY <1>2, <1>5, <1>6, <2>3 DEF CallsInv, OrderInv
  <2>4. CASE r = q /\ z = q
    BY <1>2, <2>4
  <2>5. QED
    BY <1>1, <2>1, <2>2, <2>3, <2>4
<1>10. \A r \in net' : Answering(r.call) /\ AgentAnswers' /\ r.call.said = agent'.call.said
         => r.call = agent'.call
  BY <1>1, <1>2, <1>3 DEF AgentAnswers, Answering
<1>11. \A r \in net' : r.phase = "locked" /\ ~r.dup => Older(r.call)'
  BY <1>1, <1>2, <1>4 DEF CallsInv
<1>12. QED
  BY <1>7, <1>8, <1>9, <1>10, <1>11 DEF CallsInv, Answering

\* A step that sends nothing and leaves the sessions of all pending calls alone.
LEMMA FrameCalls ==
  ASSUME CallsInv, net' \subseteq net, spoken' = spoken,
         AgentAnswers' => agent' = agent,
         \A r \in net' : Answering(r.call) =>
           rows'[r.call.sid] = rows[r.call.sid] /\ recent'[r.call.sid] = recent[r.call.sid],
         \A r \in net' : r.phase = "locked" => Answering(r.call),
         AgentAnswers' => /\ rows'[agent.call.sid] = rows[agent.call.sid]
                          /\ recent'[agent.call.sid] = recent[agent.call.sid]
  PROVE  CallsInv'
<1>1. AgentAnswers' => AgentAnswers /\ agent' = agent
  BY DEF AgentAnswers, Answering
<1>2. \A r \in net' : Answering(r.call) => r.call.said <= spoken' /\ Standing(r.call)'
  BY SameRows DEF CallsInv
<1>3. AgentAnswers' => agent'.call.said = spoken' /\ Standing(agent.call)'
  <2> SUFFICES ASSUME AgentAnswers' PROVE agent'.call.said = spoken' /\ Standing(agent.call)'
    OBVIOUS
  <2>1. agent' = agent /\ agent.call.said = spoken /\ Standing(agent.call)
    BY <1>1 DEF CallsInv
  <2>2. /\ rows'[agent.call.sid] = rows[agent.call.sid]
        /\ recent'[agent.call.sid] = recent[agent.call.sid]
    OBVIOUS
  <2>3. Standing(agent.call)'
    BY <2>1, <2>2 DEF Standing, Older, Repeats
  <2>4. QED
    BY <2>1, <2>3
<1>4. \A r \in net' : r.phase = "locked" /\ ~r.dup => Older(r.call)'
  BY SameRows DEF CallsInv
<1>5. \A r \in net' : Answering(r.call) /\ AgentAnswers' /\ r.call.said = agent'.call.said
        => r.call = agent'.call
  BY <1>1 DEF CallsInv
<1>6. QED
  BY <1>2, <1>3, <1>4, <1>5 DEF CallsInv, Answering

LEMMA FrameRows ==
  ASSUME RowsInv, rows' = rows, spoken \in Nat, spoken' \in Nat, spoken <= spoken', Base
  PROVE  RowsInv'
<1> SUFFICES ASSUME NEW s \in 1..Len(rows)
             PROVE  /\ \A i \in 1..Len(rows[s]) : rows[s][i].said <= spoken'
                    /\ \A i, j \in 1..Len(rows[s]) : i < j => rows[s][i].said < rows[s][j].said
  BY DEF RowsInv
<1>1. \A i \in 1..Len(rows[s]) : rows[s][i].said \in Nat
  BY RowTypes
<1>2. QED
  BY <1>1, SMTT(20) DEF RowsInv

LEMMA AgentKeepsCalls ==
  ASSUME Base, OrderInv, RowsInv, CallsInv,
         \/ StartAssessment \/ Retry \/ GiveUp \/ Interrupted \/ ReceiveReply
         \/ \E t \in Text \cup {Blank} : SubmitAnswer(t)
  PROVE  RowsInv' /\ CallsInv'
<1>1. spoken \in Nat /\ Len(rows) \in Nat /\ agent.call \in ToolCall
      /\ agent.sid \in 0..Len(rows) /\ agent.asking \in 0..N + 1
  BY DEF Base, TypeOK, CountersInv
<1>2. /\ \A r \in net : r.phase = "locked" => Answering(r.call)
  BY DEF Base, LockedInv, Answering
<1>3. CASE StartAssessment
  <2>1. Send(NoCall, 0) /\ rows' = rows /\ recent' = recent /\ spoken' = spoken
    BY <1>3 DEF StartAssessment, database
  <2>2. ~Answering(NoCall)
    BY NoCallType DEF Answering
  <2>3. QED
    BY <1>1, <2>1, <2>2, NoCallType, SendKeepsCalls, FrameRows
<1>4. CASE Retry
  <2>1. /\ \E try : Send(agent.call, try)
        /\ rows' = rows /\ recent' = recent /\ spoken' = spoken
        /\ agent.state = "posting"
    BY <1>4 DEF Retry, Waiting, database, counters
  <2>2. Answering(agent.call) =>
          /\ agent.call.said = spoken' /\ Standing(agent.call)
          /\ \A r \in net : Answering(r.call) /\ r.call.said = agent.call.said
               => r.call = agent.call
    BY <2>1 DEF CallsInv, AgentAnswers
  <2>3. CallsInv'
    BY <1>1, <2>1, <2>2, SendKeepsCalls
  <2>4. QED
    BY <1>1, <2>1, <2>3, FrameRows
<1>5. CASE \E t \in Text \cup {Blank} : SubmitAnswer(t)
  <2>1. PICK t \in Text \cup {Blank} : SubmitAnswer(t)
    BY <1>5
  <2> DEFINE call == [sid |-> agent.sid, text |-> t, said |-> spoken + 1, question |-> agent.asking,
                      again |-> agent.state = "interrupted"]
  <2>2. Send(call, 0) /\ rows' = rows /\ recent' = recent /\ spoken' = spoken + 1 /\ agent.sid # 0
    BY <2>1 DEF SubmitAnswer, database
  <2>3. call \in ToolCall /\ call.said = spoken + 1 /\ call.sid \in 1..Len(rows)
    BY <1>1, <2>2, NAssumption DEF ToolCall
  <2> HIDE DEF call
  <2>4. Standing(call)
    <3>1. \A i \in 1..Len(rows[call.sid]) :
            rows[call.sid][i].said <= spoken /\ rows[call.sid][i].said \in Nat
      BY <2>3, RowTypes DEF RowsInv
    <3>2. QED
      BY <1>1, <2>3, <3>1 DEF Standing, Older
  <2>5. \A r \in net : Answering(r.call) => r.call.said <= spoken /\ r.call.said \in Nat
    BY RequestTypes DEF CallsInv, ToolCall
  <2>6. CallsInv'
    BY <1>1, <2>2, <2>3, <2>4, <2>5, SendKeepsCalls
  <2>7. QED
    BY <1>1, <2>2, <2>6, FrameRows
<1>6. CASE GiveUp \/ Interrupted \/ ReceiveReply
  <2>1. rows' = rows /\ recent' = recent /\ net' = net /\ spoken' = spoken
    BY <1>6 DEF GiveUp, Interrupted, ReceiveReply, database, counters
  <2>2. agent'.state \in {"idle", "interrupted"}
    <3>1. /\ Idle.state = "idle"
          /\ [Idle EXCEPT !.state = "interrupted"].state = "interrupted"
          /\ [Idle EXCEPT !.sid = reply.sid, !.asking = reply.next].state = "idle"
      BY DEF Idle, Base, TypeOK
    <3>2. QED
      BY <1>6, <3>1 DEF GiveUp, Interrupted, ReceiveReply
  <2>3. ~AgentAnswers'
    BY <2>2 DEF AgentAnswers
  <2>4. CallsInv'
    BY <1>2, <2>1, <2>3, FrameCalls
  <2>5. QED
    BY <1>1, <2>1, <2>4, FrameRows
<1>7. QED
  BY <1>3, <1>4, <1>5, <1>6

LEMMA StartKeepsCalls ==
  ASSUME Base, RowsInv, CallsInv, NEW r \in net, StartSession(r)
  PROVE  RowsInv' /\ CallsInv'
<1>1. /\ rows' = Append(rows, <<>>) /\ recent' = Append(recent, FALSE) /\ net' = net \ {r}
      /\ agent' = agent /\ spoken' = spoken
  BY DEF StartSession, Respond, counters
<1>2. /\ Len(rows') = Len(rows) + 1 /\ Len(rows) \in Nat
      /\ \A z \in 1..Len(rows) : rows'[z] = rows[z]
      /\ rows'[Len(rows) + 1] = <<>>
  BY <1>1, Started
<1>3. \A z \in 1..Len(rows) : recent'[z] = recent[z]
  BY <1>1 DEF Base, TypeOK, KnownInv
<1>4. agent.call.sid # 0 => agent.call.sid \in 1..Len(rows)
  BY <1>2 DEF Base, TypeOK, KnownInv, ToolCall
<1>5. CallsInv'
  <2>1. \A q \in net' : Answering(q.call) =>
          rows'[q.call.sid] = rows[q.call.sid] /\ recent'[q.call.sid] = recent[q.call.sid]
    BY <1>1, <1>2, <1>3, RequestTypes DEF Answering
  <2>2. AgentAnswers' => /\ rows'[agent.call.sid] = rows[agent.call.sid]
                         /\ recent'[agent.call.sid] = recent[agent.call.sid]
    BY <1>1, <1>2, <1>3, <1>4 DEF AgentAnswers, Answering
  <2>3. \A q \in net' : q.phase = "locked" => Answering(q.call)
    BY <1>1 DEF Base, LockedInv, Answering
  <2>4. QED
    BY <1>1, <2>1, <2>2, <2>3, FrameCalls
<1>6. RowsInv'
  <2> SUFFICES ASSUME NEW s \in 1..Len(rows) + 1
               PROVE  /\ \A i \in 1..Len(rows'[s]) : rows'[s][i].said <= spoken
                      /\ \A i, j \in 1..Len(rows'[s]) :
                           i < j => rows'[s][i].said < rows'[s][j].said
    BY <1>1, <1>2 DEF RowsInv
  <2>1. CASE s = Len(rows) + 1
    BY <1>2, <2>1
  <2>2. CASE s \in 1..Len(rows)
    BY <1>2, <2>2 DEF RowsInv
  <2>3. QED
    BY <1>2, <2>1, <2>2
<1>7. QED
  BY <1>5, <1>6

LEMMA LockKeepsCalls ==
  ASSUME Base, RowsInv, CallsInv, NEW r \in net, LockAndRead(r)
  PROVE  RowsInv' /\ CallsInv'
<1> DEFINE l == [r EXCEPT !.phase = "locked", !.count = Len(rows[r.call.sid]),
                          !.dup = r.call.text = Blank \/ Duplicate(r.call)]
<1>1. /\ r.call.sid # 0 /\ net' = (net \ {r}) \cup {l}
      /\ rows' = rows /\ recent' = recent /\ agent' = agent /\ spoken' = spoken
  BY DEF LockAndRead, database, counters
<1>2. l.id = r.id /\ l.call = r.call /\ l.dup = (r.call.text = Blank \/ Duplicate(r.call))
  BY RequestTypes DEF Request
<1> HIDE DEF l
<1>3. \A c : Standing(c)' = Standing(c) /\ Older(c)' = Older(c)
  BY <1>1 DEF Standing, Older, Repeats
<1>4. ~l.dup => Older(l.call)
  <2>1. SUFFICES ASSUME ~Duplicate(r.call) PROVE Older(r.call)
    BY <1>2
  <2>2. Standing(r.call)
    BY <1>1 DEF CallsInv, Answering
  <2>3. ~Repeats(r.call)
    BY <2>1, <1>1, RequestTypes, SessionRows DEF Duplicate, Repeats, LastText
  <2>4. QED
    BY <2>2, <2>3 DEF Standing
<1>5. \A q \in net' : \E z \in net : q.id = z.id /\ q.call = z.call
  BY <1>1, <1>2
<1>6. \A q \in net' : Answering(q.call) => q.call.said <= spoken' /\ Standing(q.call)'
  BY <1>1, <1>3, <1>5 DEF CallsInv
<1>7. AgentAnswers' => agent'.call.said = spoken' /\ Standing(agent.call)'
  BY <1>1 DEF CallsInv, AgentAnswers, Answering, Standing, Older, Repeats
<1>8. \A q, z \in net' : Answering(q.call) /\ Answering(z.call) =>
        /\ q.id < z.id => q.call.said <= z.call.said
        /\ q.call.said = z.call.said => q.call = z.call
  BY <1>5 DEF CallsInv
<1>9. \A q \in net' : Answering(q.call) /\ AgentAnswers' /\ q.call.said = agent'.call.said
        => q.call = agent'.call
  BY <1>1, <1>5 DEF CallsInv, AgentAnswers, Answering
<1>10. \A q \in net' : q.phase = "locked" /\ ~q.dup => Older(q.call)'
  BY <1>1, <1>3, <1>4 DEF CallsInv
<1>11. CallsInv'
  BY <1>1, <1>6, <1>7, <1>8, <1>9, <1>10 DEF CallsInv, Answering
<1>12. QED
  BY <1>1, <1>11, FrameRows DEF Base, CountersInv

\* The inserted answer is younger than all of its session, and whoever else holds a request of
\* its utterance finds it last.
LEMMA InsertKeepsCalls ==
  ASSUME Base, Prompt, OrderInv, RowsInv, CallsInv, NEW r \in net, InsertAnswer(r)
  PROVE  RowsInv' /\ CallsInv'
<1> DEFINE s == r.call.sid
           row == [text |-> r.call.text, said |-> r.call.said, question |-> r.call.question,
                   again |-> r.call.again]
           n == Len(rows[s])
<1>1. /\ r.phase = "locked" /\ ~r.dup /\ s \in 1..Len(rows) /\ row \in Row
      /\ rows' = [rows EXCEPT ![s] = Append(@, row)]
      /\ recent' = [recent EXCEPT ![s] = TRUE]
      /\ Respond(r, [sid |-> s, next |-> r.count + 2])
      /\ agent' = agent /\ UNCHANGED counters
  BY InsertEffect
<1>2. net' = net \ {r} /\ spoken' = spoken
  BY <1>1 DEF Respond, counters
<1>3. row.said = r.call.said /\ row.text = r.call.text
  OBVIOUS
<1> HIDE DEF row
<1>4. /\ Len(rows') = Len(rows)
      /\ \A z \in 1..Len(rows) : z # s => rows'[z] = rows[z]
      /\ Len(rows'[s]) = n + 1
      /\ \A i \in 1..n : rows'[s][i] = rows[s][i]
      /\ rows'[s][n + 1] = row
  BY <1>1, Appended
<1>5. n \in Nat /\ spoken \in Nat /\ Len(rows) \in Nat
  BY <1>1, SessionRows DEF Base, CountersInv, TypeOK
<1>6. recent'[s] = TRUE /\ \A z \in 1..Len(rows) : z # s => recent'[z] = recent[z]
  BY <1>1 DEF Base, TypeOK, KnownInv
<1>7. r.call.said \in Nat /\ r.call.said <= spoken /\ \A i \in 1..n : rows[s][i].said < r.call.said
  <2>1. Answering(r.call)
    BY <1>1, <1>5 DEF Answering
  <2>2. QED
    BY <1>1, <2>1, RequestTypes DEF CallsInv, Older, ToolCall
<1>8. RowsInv'
  <2> SUFFICES ASSUME NEW z \in 1..Len(rows)
               PROVE  /\ \A i \in 1..Len(rows'[z]) : rows'[z][i].said <= spoken
                      /\ \A i, j \in 1..Len(rows'[z]) :
                           i < j => rows'[z][i].said < rows'[z][j].said
    BY <1>2, <1>4 DEF RowsInv
  <2>1. CASE z # s
    BY <1>4, <2>1 DEF RowsInv
  <2>2. CASE z = s
    <3>1. \A i \in 1..n + 1 : i \in 1..n \/ i = n + 1
      BY <1>5
    <3>2. \A i \in 1..n + 1 : rows'[s][i].said <= spoken
      BY <1>1, <1>3, <1>4, <1>7, <3>1 DEF RowsInv
    <3>3. ASSUME NEW i \in 1..n + 1, NEW j \in 1..n + 1, i < j
          PROVE  rows'[s][i].said < rows'[s][j].said
      <4>1. i \in 1..n
        BY <1>5, <3>3
      <4>2. CASE j \in 1..n
        BY <1>1, <1>4, <3>3, <4>1, <4>2 DEF RowsInv
      <4>3. CASE j = n + 1
        BY <1>3, <1>4, <1>7, <4>1, <4>3
      <4>4. QED
        BY <3>1, <4>2, <4>3
    <3>4. QED
      BY <1>4, <2>2, <3>2, <3>3
  <2>3. QED
    BY <2>1, <2>2
\* a call on the session, of the same utterance or a later one
<1>9. ASSUME NEW call \in ToolCall, call.sid = s, r.call.said <= call.said,
             r.call.said = call.said => call.text = r.call.text
      PROVE  Standing(call)'
  <2>1. CASE r.call.said = call.said
    <3>1. \A i \in 1..n : rows'[s][i].said < call.said
      BY <1>4, <1>7, <2>1
    <3>2. rows'[s][n + 1].said = call.said /\ rows'[s][n + 1].text = call.text
      BY <1>3, <1>4, <1>9, <2>1
    <3>3. Repeats(call)'
      <4>1. Len(rows'[call.sid]) = n + 1 /\ n + 1 > 0 /\ n + 1 - 1 = n /\ recent'[call.sid]
        BY <1>4, <1>5, <1>6, <1>9
      <4>2. QED
        BY <1>9, <3>1, <3>2, <4>1, SMTT(20) DEF Repeats
    <3>4. QED
      BY <3>3 DEF Standing
  <2>2. CASE r.call.said < call.said
    <3>1. \A i \in 1..n + 1 : rows'[s][i].said < call.said
      <4>1. \A i \in 1..n + 1 : i \in 1..n \/ i = n + 1
        BY <1>5
      <4>2. call.said \in Nat /\ \A i \in 1..n : rows[s][i].said \in Nat
        BY <1>1, RowTypes DEF ToolCall
      <4>3. ASSUME NEW i \in 1..n PROVE rows'[s][i].said < call.said
        <5>1. rows'[s][i].said = rows[s][i].said /\ rows[s][i].said < r.call.said
          BY <1>4, <1>7
        <5>2. QED
          BY <1>7, <2>2, <4>2, <5>1
      <4>4. rows'[s][n + 1].said < call.said
        BY <1>3, <1>4, <2>2
      <4>5. QED
        BY <4>1, <4>3, <4>4
    <3>2. Older(call)'
      BY <1>4, <1>9, <3>1 DEF Older
    <3>3. QED
      BY <3>2 DEF Standing
  <2>3. QED
    BY <1>7, <1>9, <2>1, <2>2 DEF ToolCall
<1>10. ASSUME NEW q \in net', Answering(q.call)
       PROVE  q.call.said <= spoken' /\ Standing(q.call)'
  <2>1. q \in net /\ q # r /\ q.call.said <= spoken /\ Standing(q.call) /\ q.call \in ToolCall
        /\ q.call.sid \in 1..Len(rows)
    BY <1>2, <1>10, RequestTypes DEF CallsInv, Answering
  <2>2. CASE q.call.sid # s
    BY <1>2, <1>4, <1>6, <2>1, <2>2, SameRows
  <2>3. CASE q.call.sid = s
    <3>1. q.phase = "queued"
      BY <1>1, <2>1, <2>3, RequestTypes DEF Base, LockedInv, Request
    <3>2. r.id < q.id
      BY <1>1, <2>1, <3>1 DEF OrderInv
    <3>3. /\ r.call.said <= q.call.said
          /\ r.call.said = q.call.said => r.call = q.call
      BY <1>10, <2>1, <2>3, <3>2 DEF CallsInv, Answering
    <3>4. QED
      BY <1>2, <1>9, <2>1, <2>3, <3>3
  <2>4. QED
    BY <2>2, <2>3
<1>11. ASSUME AgentAnswers'
       PROVE  agent'.call.said = spoken' /\ Standing(agent.call)'
  <2>1. AgentAnswers /\ agent.call.said = spoken /\ Standing(agent.call)
    BY <1>1, <1>11 DEF AgentAnswers, Answering, CallsInv
  <2>2. agent.call \in ToolCall /\ agent.call.sid \in 1..Len(rows)
    BY <1>5, <2>1 DEF Base, TypeOK, KnownInv, AgentAnswers, Answering, ToolCall
  <2>3. CASE agent.call.sid # s
    <3>1. /\ rows'[agent.call.sid] = rows[agent.call.sid]
          /\ recent'[agent.call.sid] = recent[agent.call.sid]
      BY <1>4, <1>6, <2>2, <2>3
    <3>2. Standing(agent.call)'
      BY <1>1, <2>1, <3>1 DEF Standing, Older, Repeats
    <3>3. QED
      BY <1>1, <1>2, <2>1, <3>2
  <2>4. CASE agent.call.sid = s
    <3>1. r.call.said = agent.call.said => r.call = agent.call
      BY <1>1, <2>1, <2>4 DEF CallsInv, AgentAnswers, Answering
    <3>2. PICK call \in ToolCall : call = agent.call
      BY <2>2
    <3>3. Standing(call)'
      BY <1>7, <1>9, <2>1, <2>4, <3>1, <3>2
    <3>4. agent'.call = call
      BY <1>1, <3>2
    <3>5. Standing(agent.call)'
      BY <3>3, <3>4 DEF Standing, Older, Repeats
    <3>6. QED
      BY <1>1, <1>2, <2>1, <3>5
  <2>5. QED
    BY <2>3, <2>4
<1>12. \A q \in net' : q.phase = "locked" /\ ~q.dup => Older(q.call)'
  <2> SUFFICES ASSUME NEW q \in net', q.phase = "locked", ~q.dup PROVE Older(q.call)'
    OBVIOUS
  <2>1. q \in net /\ q # r /\ q.call.sid \in 1..Len(rows) /\ Older(q.call)
    BY <1>2, RequestTypes DEF CallsInv
  <2>2. q.call.sid # s
    BY <1>1, <2>1 DEF Base, LockedInv
  <2>3. QED
    BY <1>4, <1>6, <2>1, <2>2, SameRows
<1>13. CallsInv'
  <2>1. \A q \in net' : Answering(q.call) /\ AgentAnswers' /\ q.call.said = agent'.call.said
          => q.call = agent'.call
    BY <1>1, <1>2 DEF CallsInv, AgentAnswers, Answering
  <2>2. QED
    BY <1>2, <1>10, <1>11, <1>12, <2>1 DEF CallsInv, Answering
<1>14. QED
  BY <1>8, <1>13

UInv == OrderInv /\ RowsInv /\ CallsInv

LEMMA UNext == Base /\ Prompt /\ UInv /\ [Next]_vars => UInv'
<1> SUFFICES ASSUME Base, Prompt, UInv, [Next]_vars PROVE RowsInv' /\ CallsInv'
  BY OrderNext DEF UInv
<1>1. spoken \in Nat /\ \A r \in net : r.phase = "locked" => Answering(r.call)
  BY DEF Base, CountersInv, LockedInv, Answering
<1>2. ASSUME rows' = rows, recent' = recent, net' \subseteq net, spoken' = spoken,
             AgentAnswers' => agent' = agent
      PROVE  RowsInv' /\ CallsInv'
  <2>1. CallsInv'
    BY <1>1, <1>2, FrameCalls DEF UInv
  <2>2. QED
    BY <1>1, <1>2, <2>1, FrameRows DEF UInv
<1>3. CASE \E r \in net : Handle(r)
  <2>1. PICK r \in net : Handle(r)
    BY <1>3
  <2>2. CASE StartSession(r)
    BY <2>2, StartKeepsCalls DEF UInv
  <2>3. CASE LockAndRead(r)
    BY <2>3, LockKeepsCalls DEF UInv
  <2>4. CASE ReturnPending(r)
    BY <1>2, <2>4 DEF ReturnPending, Respond, database, counters
  <2>5. CASE InsertAnswer(r)
    BY <2>5, InsertKeepsCalls DEF UInv
  <2>6. QED
    BY <2>1, <2>2, <2>3, <2>4, <2>5 DEF Handle
<1>4. CASE ApiCrash
  <2>1. rows' = rows /\ recent' = recent /\ net' \subseteq net /\ spoken' = spoken
    BY <1>4 DEF ApiCrash, database
  <2>2. AgentAnswers' => agent' = agent
    <3>1. CASE agent.state = "posting"
      <4>1. agent'.state = "raised"
        BY <1>4, <3>1 DEF ApiCrash, Base, TypeOK
      <4>2. QED
        BY <4>1 DEF AgentAnswers
    <3>2. CASE agent.state # "posting"
      BY <1>4, <3>2 DEF ApiCrash
    <3>3. QED
      BY <3>1, <3>2
  <2>3. QED
    BY <1>2, <2>1, <2>2
<1>5. CASE \E s \in DOMAIN rows : WindowElapses(s)
  <2>1. rows' = rows /\ net' = net /\ agent' = agent /\ spoken' = spoken
        /\ agent.state # "posting" /\ net = {}
    BY <1>5 DEF WindowElapses, counters
  <2>2. CallsInv'
    BY <2>1 DEF CallsInv, AgentAnswers
  <2>3. QED
    BY <1>1, <2>1, <2>2, FrameRows DEF UInv
<1>6. CASE UNCHANGED vars
  BY <1>2, <1>6 DEF vars, database, counters
<1>7. QED
  BY <1>3, <1>4, <1>5, <1>6, AgentKeepsCalls DEF Next, UInv

LEMMA UInit == Init => UInv
<1> SUFFICES ASSUME Init PROVE UInv
  OBVIOUS
<1>1. net = {} /\ agent.state = "idle" /\ Len(rows) = 0
  BY DEF Init
<1>2. QED
  BY <1>1 DEF UInv, OrderInv, RowsInv, CallsInv, AgentAnswers

\* While requests are handled in order and repeats come within the duplicate window, one tool
\* call is one answer at most, however timeouts, retries, barge-ins and crashes combine.
THEOREM UtterancesStoredOnce ==
  ASSUME Prompt
  PROVE  Spec => []NoUtteranceTwice
<1>1. Base /\ UInv => NoUtteranceTwice
  <2> SUFFICES ASSUME Base, UInv, NEW s \in DOMAIN rows,
                      NEW i \in DOMAIN rows[s], NEW j \in DOMAIN rows[s],
                      rows[s][i].said = rows[s][j].said, i # j
               PROVE  FALSE
    BY DEF NoUtteranceTwice
  <2>0. s \in 1..Len(rows) /\ i \in 1..Len(rows[s]) /\ j \in 1..Len(rows[s])
    BY SessionRows DEF Base, TypeOK
  <2>1. i < j \/ j < i
    BY <2>0, SessionRows
  <2>2. rows[s][i].said < rows[s][j].said \/ rows[s][j].said < rows[s][i].said
    BY <2>0, <2>1 DEF UInv, RowsInv
  <2>3. QED
    BY <2>0, <2>2, RowTypes
<1>2. QED
  BY BaseInit, BaseNext, UInit, UNext, <1>1, Prompt, PTL DEF Spec

-----------------------------------------------------------------------------
(***************************************************************************)
(* Positions.  Until a tool call fails, the pending requests for the       *)
(* session the agent fills are all about the question it asked last, and   *)
(* that question is the first without an answer or the one the last row    *)
(* answers.  Of the calls about one question only the first was not made   *)
(* after a barge-in (again), and the others bring other words or are       *)
(* recognised.                                                             *)
(***************************************************************************)
AlignedInv ==
  \A s \in 1..Len(rows) : \A i \in 1..Len(rows[s]) :
    /\ rows[s][i].question <= i
    /\ rows[s][i].question = i \/ Reworded(rows[s], i)

IdleInv ==
  agent.state = "idle" /\ agent.sid # 0 =>
    /\ agent.asking = Len(rows[agent.sid]) + 1
    /\ \A r \in net : r.call.sid # agent.sid

\* the question asked last has no answer yet, or the last row is one, stored not long ago
Asked ==
  LET own == rows[agent.sid] IN
  \/ agent.asking = Len(own) + 1
  \/ Len(own) > 0 /\ own[Len(own)].question = agent.asking /\ recent[agent.sid]

AskedInv == agent.state \in {"posting", "interrupted"} /\ agent.sid # 0 => Asked

\* no answer to the question of the call is older than a call that followed no barge-in
First(call) ==
  ~call.again =>
    /\ \A i \in 1..Len(rows[call.sid]) :
         rows[call.sid][i].question = call.question => call.said <= rows[call.sid][i].said
    /\ \A r \in net : r.call.sid = call.sid => call.said <= r.call.said

OwnCall(call) == call.sid = agent.sid /\ call.question = agent.asking /\ First(call)

OwnInv ==
  /\ \A r \in net : Answering(r.call) /\ r.call.sid = agent.sid => OwnCall(r.call)
  /\ \A r \in net : r.phase = "queued" /\ Answering(r.call) => r.call.sid = agent.sid
  /\ AgentAnswers => OwnCall(agent.call)

\* what a transaction is about to insert is at its position, or reworded
Fits(call) ==
  LET own == rows[call.sid] IN
  \/ call.question = Len(own) + 1
  \/ /\ Len(own) > 0 /\ own[Len(own)].question = call.question
     /\ call.again /\ own[Len(own)].text # call.text

InsertInv == \A r \in net : r.phase = "locked" /\ ~r.dup => Fits(r.call)

\* the response is that of the request sent last, after which no other waits
LastInv == agent.state = "posting" => \A r \in net : r.id = posts => r.call = agent.call

ReplyInv ==
  agent.state = "posting" /\ reply # NoReply =>
    /\ \A r \in net : r.phase = "locked" /\ r.call.sid # reply.sid
    /\ reply.sid \in 1..Len(rows) /\ reply.next = Len(rows[reply.sid]) + 1
    /\ Answering(agent.call) => reply.sid = agent.sid
    /\ ~Answering(agent.call) => reply.sid = Len(rows)

Starting == agent.state = "posting" /\ ~Answering(agent.call)
NewestInv ==
  ~astray /\ agent.sid # 0 /\ ~Starting =>
    agent.sid = Len(rows) /\ \A r \in net : Answering(r.call)

InStep ==
  /\ agent.state # "raised"
  /\ AlignedInv /\ IdleInv /\ AskedInv /\ OwnInv /\ InsertInv /\ LastInv /\ ReplyInv /\ NewestInv

\* A step that leaves the agent and the rows alone, and the requests that stay.
LEMMA FrameStep ==
  ASSUME InStep, rows' = rows, agent' = agent, posts' = posts, astray' = astray,
         net' \subseteq net, reply' \in {reply, NoReply},
         recent' = recent \/ agent.state \notin {"posting", "interrupted"}
  PROVE  InStep'
<1>1. AlignedInv' /\ IdleInv' /\ LastInv' /\ ReplyInv'
  BY DEF InStep, AlignedInv, Reworded, IdleInv, LastInv, ReplyInv, Answering
<1>2. AskedInv'
  BY DEF InStep, AskedInv, Asked
<1>3. \A call : First(call) => First(call)'
  BY DEF First
<1>4. OwnInv'
  BY <1>3 DEF InStep, OwnInv, OwnCall, AgentAnswers, Answering, First
<1>5. InsertInv' /\ NewestInv'
  BY DEF InStep, InsertInv, Fits, NewestInv, Starting, Answering
<1> QED
  BY <1>1, <1>2, <1>4, <1>5 DEF InStep

\* A request is sent about the question asked last, or to start a session.
LEMMA SendKeepsStep ==
  ASSUME Base, UInv, InStep, NEW call \in ToolCall, NEW try \in 0..1, Send(call, try),
         rows' = rows, recent' = recent, astray' = astray,
         agent.sid # 0 => Asked,
         Answering(call) => /\ OwnCall(call) /\ ~Starting
                            /\ \A r \in net : r.call.sid = call.sid => r.call.said <= call.said
  PROVE  InStep'
<1> DEFINE q == [id |-> posts + 1, call |-> call, phase |-> "queued", count |-> 0, dup |-> FALSE]
<1>1. /\ posts' = posts + 1 /\ net' = net \cup {q} /\ reply' = NoReply
      /\ agent' = [agent EXCEPT !.state = "posting", !.call = call, !.try = try]
  BY DEF Send
<1>2. q.phase = "queued" /\ q.call = call /\ q.id = posts + 1 /\ posts \in Nat
  BY DEF Base, CountersInv
<1> HIDE DEF q
<1>3. agent'.call = call /\ agent'.state = "posting" /\ agent'.sid = agent.sid
      /\ agent'.asking = agent.asking
  BY <1>1 DEF Base, TypeOK
<1>4. \A r \in net : r.id \in Nat /\ r.id <= posts
  BY <1>2 DEF UInv, OrderInv
<1>5. AlignedInv' /\ IdleInv' /\ AskedInv' /\ ReplyInv'
  BY <1>1, <1>3 DEF InStep, AlignedInv, Reworded, IdleInv, AskedInv, Asked, ReplyInv
<1>6. LastInv'
  BY <1>1, <1>2, <1>3, <1>4 DEF LastInv
<1>7. InsertInv'
  BY <1>1, <1>2 DEF InStep, InsertInv, Fits
<1>8. OwnInv'
  <2>1. call.said \in Nat
    BY DEF ToolCall
  <2>2. ASSUME Answering(call) PROVE First(call)'
    BY <1>1, <1>2, <2>1, <2>2 DEF OwnCall, First
  <2>3. ASSUME NEW r \in net, Answering(r.call), r.call.sid = agent.sid PROVE First(r.call)'
    <3>1. First(r.call)
      BY <2>3 DEF InStep, OwnInv, OwnCall
    <3>2. call.sid = r.call.sid => r.call.said <= call.said
      BY <2>3 DEF Answering, OwnCall
    <3> QED
      BY <1>1, <1>2, <3>1, <3>2 DEF First
  <2>4. \A r \in net' : Answering(r.call) /\ r.call.sid = agent.sid => OwnCall(r.call)'
    BY <1>1, <1>2, <1>3, <2>2, <2>3 DEF InStep, OwnInv, OwnCall
  <2>5. \A r \in net' : r.phase = "queued" /\ Answering(r.call) => r.call.sid = agent.sid
    BY <1>1, <1>2 DEF InStep, OwnInv, OwnCall
  <2>6. Answering(call) => OwnCall(agent.call)'
    BY <1>3, <2>2 DEF OwnCall, First
  <2> QED
    BY <1>3, <2>4, <2>5, <2>6 DEF OwnInv, AgentAnswers, Answering
<1>9. NewestInv'
  BY <1>1, <1>2, <1>3 DEF InStep, NewestInv, Starting, Answering
<1> QED
  BY <1>3, <1>5, <1>6, <1>7, <1>8, <1>9 DEF InStep

\* The handler ends: the LLM may go on with what it knows.
LEMMA ReceiveKeepsStep ==
  ASSUME Base, InStep, ReceiveReply, ~failed'
  PROVE  InStep'
<1>1. /\ agent.state = "posting" /\ reply # NoReply /\ reply' = NoReply
      /\ agent' = [Idle EXCEPT !.sid = reply.sid, !.asking = reply.next]
      /\ astray' = (astray /\ agent.call.sid # 0)
      /\ rows' = rows /\ recent' = recent /\ net' = net /\ posts' = posts
  BY DEF ReceiveReply, database
<1>2. agent'.state = "idle" /\ agent'.sid = reply.sid /\ agent'.asking = reply.next
  BY <1>1 DEF Idle, Base, TypeOK
<1>3. /\ \A r \in net : r.phase = "locked" /\ r.call.sid # reply.sid /\ Answering(r.call)
      /\ reply.sid \in 1..Len(rows) /\ reply.next = Len(rows[reply.sid]) + 1
      /\ Answering(agent.call) => reply.sid = agent.sid
      /\ ~Answering(agent.call) => reply.sid = Len(rows)
  BY <1>1 DEF InStep, ReplyInv, Base, LockedInv, Answering
<1>4. AlignedInv' /\ IdleInv' /\ AskedInv' /\ InsertInv' /\ LastInv' /\ ReplyInv'
  BY <1>1, <1>2, <1>3
     DEF InStep, AlignedInv, Reworded, IdleInv, AskedInv, InsertInv, Fits, LastInv, ReplyInv
<1>5. OwnInv'
  BY <1>1, <1>2, <1>3 DEF OwnInv, AgentAnswers
<1>6. NewestInv'
  BY <1>1, <1>2, <1>3 DEF InStep, NewestInv, Starting, Answering
<1> QED
  BY <1>2, <1>4, <1>5, <1>6 DEF InStep

LEMMA InterruptKeepsStep ==
  ASSUME Base, InStep, Interrupted
  PROVE  InStep'
<1>1. /\ agent.state = "posting" /\ reply' = NoReply
      /\ agent' = [Idle EXCEPT !.state = "interrupted"]
      /\ astray' = (astray \/ agent.call.sid = 0)
      /\ rows' = rows /\ recent' = recent /\ net' = net /\ posts' = posts
  BY DEF Interrupted, database
<1>2. agent'.state = "interrupted" /\ agent'.sid = agent.sid /\ agent'.asking = agent.asking
  BY <1>1 DEF Idle, Base, TypeOK
<1>3. AlignedInv' /\ IdleInv' /\ AskedInv' /\ InsertInv' /\ LastInv' /\ ReplyInv'
  BY <1>1, <1>2
     DEF InStep, AlignedInv, Reworded, IdleInv, AskedInv, Asked, InsertInv, Fits, LastInv, ReplyInv
<1>4. OwnInv'
  BY <1>1, <1>2 DEF InStep, OwnInv, OwnCall, First, AgentAnswers, Answering
<1>5. NewestInv'
  BY <1>1, <1>2 DEF InStep, NewestInv, Starting, Answering
<1> QED
  BY <1>2, <1>3, <1>4, <1>5 DEF InStep

LEMMA AgentKeepsStep ==
  ASSUME Base, UInv, InStep, ~failed',
         \/ StartAssessment \/ Retry \/ GiveUp \/ Interrupted \/ ReceiveReply
         \/ \E t \in Text \cup {Blank} : SubmitAnswer(t)
  PROVE  InStep'
<1>1. Len(rows) \in Nat /\ agent.call \in ToolCall /\ spoken \in Nat
      /\ agent.state \in {"idle", "posting", "interrupted"}
      /\ agent.sid \in 0..Len(rows) /\ agent.asking \in 0..N + 1
  BY DEF Base, TypeOK, CountersInv, InStep
<1>2. agent.sid # 0 => Asked
  BY <1>1 DEF InStep, IdleInv, AskedInv, Asked
<1>3. \A r \in net : Answering(r.call) => r.call.said \in Nat /\ r.call.said <= spoken
  BY RequestTypes DEF UInv, CallsInv, ToolCall
<1>4. CASE StartAssessment
  <2>1. Send(NoCall, 0) /\ rows' = rows /\ recent' = recent /\ astray' = astray
    BY <1>4 DEF StartAssessment, database
  <2> QED
    BY <1>2, <2>1, NoCallType, SendKeepsStep DEF Answering
<1>5. CASE Retry
  <2>1. /\ Send(agent.call, 1) /\ agent.state = "posting"
        /\ rows' = rows /\ recent' = recent /\ astray' = astray
    BY <1>5 DEF Retry, Waiting, database
  <2>2. Answering(agent.call) =>
          /\ OwnCall(agent.call) /\ ~Starting
          /\ \A r \in net : r.call.sid = agent.call.sid => r.call.said <= agent.call.said
    BY <1>3, <2>1 DEF InStep, OwnInv, AgentAnswers, Starting, Answering, UInv, CallsInv
  <2> QED
    BY <1>1, <1>2, <2>1, <2>2, SendKeepsStep
<1>6. CASE \E t \in Text \cup {Blank} : SubmitAnswer(t)
  <2>1. PICK t \in Text \cup {Blank} : SubmitAnswer(t)
    BY <1>6
  <2> DEFINE call == [sid |-> agent.sid, text |-> t, said |-> spoken + 1, question |-> agent.asking,
                      again |-> agent.state = "interrupted"]
  <2>2. /\ Send(call, 0) /\ rows' = rows /\ recent' = recent /\ astray' = astray
        /\ agent.sid # 0 /\ agent.state \in {"idle", "interrupted"}
    BY <1>1, <2>1 DEF SubmitAnswer, database
  <2>3. call \in ToolCall /\ call.sid = agent.sid /\ call.question = agent.asking
        /\ call.said = spoken + 1
    BY <1>1, NAssumption DEF ToolCall
  <2>3a. agent.state = "interrupted" => call.again
    OBVIOUS
  <2> HIDE DEF call
  <2>4. First(call)
    <3>1. CASE agent.state = "interrupted"
      BY <2>3a, <3>1 DEF First
    <3>2. CASE agent.state = "idle"
      <4>1. agent.asking = Len(rows[agent.sid]) + 1 /\ \A r \in net : r.call.sid # agent.sid
        BY <2>2, <3>2 DEF InStep, IdleInv
      <4>2. agent.sid \in 1..Len(rows) /\ Len(rows[agent.sid]) \in Nat
        BY <1>1, <2>2, SessionRows
      <4>3. \A i \in 1..Len(rows[agent.sid]) : rows[agent.sid][i].question # agent.asking
        BY <4>1, <4>2, RowTypes DEF InStep, AlignedInv
      <4> QED
        BY <2>3, <4>1, <4>3 DEF First
    <3> QED
      BY <2>2, <3>1, <3>2
  <2>5. Answering(call) =>
          /\ OwnCall(call) /\ ~Starting
          /\ \A r \in net : r.call.sid = call.sid => r.call.said <= call.said
    BY <1>1, <1>3, <2>2, <2>3, <2>4 DEF OwnCall, Starting, Answering
  <2> QED
    BY <1>2, <2>2, <2>3, <2>5, SendKeepsStep
<1>7. CASE GiveUp
  BY <1>7 DEF GiveUp
<1> QED
  BY <1>4, <1>5, <1>6, <1>7, ReceiveKeepsStep, InterruptKeepsStep

\* A response that reaches the agent is that of the request sent last, and the requests that
\* are left are in transactions on other sessions.
LEMMA Responds ==
  ASSUME Base, Prompt, OrderInv, InStep, NEW r \in net, NEW response, Respond(r, response),
         r.phase = "locked" \/ (InOrder(r) /\ r.call.sid = 0)
  PROVE  /\ net' = net \ {r}
         /\ \/ reply' = reply
            \/ /\ agent.state = "posting" /\ r.call = agent.call /\ reply' = response
               /\ \A q \in net' : q.phase = "locked" /\ q.call.sid \in 1..Len(rows)
                                  /\ q.call.sid # r.call.sid
<1>1. net' = net \ {r}
  BY DEF Respond
<1>2. CASE agent.state = "posting" /\ r.id = posts
  <2>1. r.call = agent.call /\ reply' = response
    BY <1>2 DEF InStep, LastInv, Respond
  <2>2. SUFFICES ASSUME NEW q \in net \ {r}
                 PROVE  q.phase = "locked" /\ q.call.sid \in 1..Len(rows) /\ q.call.sid # r.call.sid
    BY <1>1, <1>2, <2>1
  <2>3. q.id \in Nat /\ q.id <= posts /\ q.id # posts /\ r.id \in Nat
        /\ q.phase \in {"queued", "locked"} /\ r.phase \in {"queued", "locked"}
    BY <1>2, RequestTypes DEF OrderInv, Request, Base, CountersInv
  <2>4. q.phase = "locked"
    BY <1>2, <2>3 DEF OrderInv, InOrder
  <2>5. q.call.sid # r.call.sid
    BY <2>4, RequestTypes DEF Base, LockedInv
  <2> QED
    BY <2>4, <2>5, RequestTypes
<1>3. CASE ~(agent.state = "posting" /\ r.id = posts)
  BY <1>1, <1>3 DEF Respond
<1> QED
  BY <1>2, <1>3

\* The last request is answered with its session and the first question without an answer.
LEMMA RespondKeepsReply ==
  ASSUME Base, Prompt, OrderInv, InStep, NEW r \in net, NEW response, Respond(r, response),
         r.phase = "locked" \/ (InOrder(r) /\ r.call.sid = 0),
         agent' = agent, Len(rows') \in Nat, Len(rows) <= Len(rows'),
         Answering(r.call) => Len(rows') = Len(rows) /\ response.sid = r.call.sid,
         ~Answering(r.call) => Len(rows') = Len(rows) + 1 /\ response.sid = Len(rows'),
         \A s \in 1..Len(rows) : s # r.call.sid => rows'[s] = rows[s],
         response.sid \in 1..Len(rows') /\ response.next = Len(rows'[response.sid]) + 1
  PROVE  ReplyInv'
<1> SUFFICES ASSUME agent.state = "posting", reply' # NoReply
             PROVE  /\ \A q \in net' : q.phase = "locked" /\ q.call.sid # reply'.sid
                    /\ reply'.sid \in 1..Len(rows') /\ reply'.next = Len(rows'[reply'.sid]) + 1
                    /\ Answering(agent.call) => reply'.sid = agent.sid
                    /\ ~Answering(agent.call) => reply'.sid = Len(rows')
  BY DEF ReplyInv, Answering
<1>1. CASE reply' = reply
  <2>1. /\ \A q \in net : q.phase = "locked" /\ q.call.sid # reply.sid
        /\ reply.sid \in 1..Len(rows) /\ reply.next = Len(rows[reply.sid]) + 1
        /\ Answering(agent.call) => reply.sid = agent.sid
        /\ ~Answering(agent.call) => reply.sid = Len(rows)
    BY <1>1 DEF InStep, ReplyInv
  <2>2. Answering(r.call)
    BY <2>1 DEF Base, LockedInv, Answering
  <2> QED
    BY <1>1, <2>1, <2>2, Responds
<1>2. CASE reply' # reply
  <2>1. /\ r.call = agent.call /\ reply' = response
        /\ \A q \in net' : q.phase = "locked" /\ q.call.sid \in 1..Len(rows)
                           /\ q.call.sid # r.call.sid
    BY <1>2, Responds
  <2>2. Answering(agent.call) => agent.call.sid = agent.sid
    BY DEF InStep, OwnInv, OwnCall, AgentAnswers
  <2>3. Len(rows) \in Nat
    BY DEF Base, TypeOK
  <2> QED
    BY <2>1, <2>2, <2>3
<1> QED
  BY <1>1, <1>2

LEMMA StartKeepsStep ==
  ASSUME Base, Prompt, OrderInv, InStep, NEW r \in net, StartSession(r)
  PROVE  InStep'
<1> DEFINE response == [sid |-> Len(rows) + 1, next |-> 1]
<1>1. /\ InOrder(r) /\ r.call.sid = 0 /\ posts' = posts /\ astray' = astray
      /\ rows' = Append(rows, <<>>) /\ recent' = Append(recent, FALSE)
      /\ Respond(r, response) /\ agent' = agent
  BY DEF StartSession
<1>2. /\ Len(rows') = Len(rows) + 1 /\ Len(rows) \in Nat
      /\ \A z \in 1..Len(rows) : rows'[z] = rows[z] /\ recent'[z] = recent[z]
      /\ rows'[Len(rows) + 1] = <<>>
  BY <1>1, Started DEF Base, TypeOK, KnownInv
<1>3. response.sid = Len(rows') /\ response.next = Len(rows'[response.sid]) + 1
      /\ response.sid \in 1..Len(rows')
  BY <1>2
<1> HIDE DEF response
<1>4. net' \subseteq net /\ agent.sid \in 0..Len(rows)
      /\ (AgentAnswers => agent.call.sid = agent.sid)
  BY <1>1 DEF Respond, Base, TypeOK, InStep, OwnInv, OwnCall
<1>5. ReplyInv'
  BY <1>1, <1>2, <1>3, RespondKeepsReply DEF Answering
<1>6. AlignedInv'
  <2> SUFFICES ASSUME NEW s \in 1..Len(rows) + 1, NEW i \in 1..Len(rows'[s])
               PROVE  /\ rows'[s][i].question <= i
                      /\ rows'[s][i].question = i \/ Reworded(rows'[s], i)
    BY <1>2 DEF AlignedInv, Reworded
  <2>1. s \in 1..Len(rows)
    BY <1>2
  <2> QED
    BY <1>2, <2>1 DEF InStep, AlignedInv, Reworded
<1>7. IdleInv' /\ AskedInv' /\ LastInv'
  <2>1. agent.sid # 0 => rows'[agent.sid] = rows[agent.sid] /\ recent'[agent.sid] = recent[agent.sid]
    BY <1>2, <1>4
  <2>2. IdleInv'
    BY <1>1, <1>4, <2>1 DEF InStep, IdleInv
  <2>3. AskedInv'
    BY <1>1, <2>1 DEF InStep, AskedInv, Asked
  <2> QED
    BY <1>1, <1>4, <2>2, <2>3 DEF InStep, LastInv
<1>8. \A call : call.sid \in 1..Len(rows) /\ First(call) => First(call)'
  BY <1>2, <1>4 DEF First
<1>9. OwnInv'
  <2>1. \A q \in net' : Answering(q.call) /\ q.call.sid = agent.sid => OwnCall(q.call)'
    BY <1>1, <1>4, <1>8, RequestTypes DEF InStep, OwnInv, OwnCall, Answering
  <2>2. AgentAnswers => OwnCall(agent.call)'
    <3> SUFFICES ASSUME AgentAnswers PROVE OwnCall(agent.call)'
      OBVIOUS
    <3>1. OwnCall(agent.call) /\ agent.call.sid \in 1..Len(rows)
      BY <1>2, <1>4 DEF InStep, OwnInv, AgentAnswers, Answering
    <3> QED
      BY <1>1, <1>2, <1>4, <3>1 DEF OwnCall, First
  <2> QED
    BY <1>1, <1>4, <2>1, <2>2 DEF InStep, OwnInv, AgentAnswers, Answering
<1>10. InsertInv'
  BY <1>2, <1>4, RequestTypes DEF InStep, InsertInv, Fits
<1>11. NewestInv'
  BY <1>1, <1>4 DEF InStep, NewestInv, Starting, Answering
<1> QED
  BY <1>1, <1>5, <1>6, <1>7, <1>9, <1>10, <1>11 DEF InStep

\* A submission that is no duplicate finds its question without an answer, or follows a barge-in
\* and brings other words.
LEMMA LockKeepsStep ==
  ASSUME Base, UInv, InStep, NEW r \in net, LockAndRead(r)
  PROVE  InStep'
<1> DEFINE l == [r EXCEPT !.phase = "locked", !.count = Len(rows[r.call.sid]),
                          !.dup = r.call.text = Blank \/ Duplicate(r.call)]
<1>1. /\ r.call.sid # 0 /\ r.phase = "queued" /\ net' = (net \ {r}) \cup {l}
      /\ rows' = rows /\ recent' = recent /\ agent' = agent /\ reply' = reply
      /\ posts' = posts /\ astray' = astray
  BY DEF LockAndRead, database
<1>2. /\ l.call = r.call /\ l.id = r.id /\ l.dup = (r.call.text = Blank \/ Duplicate(r.call))
      /\ l.phase = "locked"
  BY RequestTypes DEF Request
<1> HIDE DEF l
<1>3. \A q \in net' : \E z \in net : q.call = z.call /\ q.id = z.id
  BY <1>1, <1>2
<1>4. agent.state = "posting" => reply = NoReply
  BY <1>1 DEF InStep, ReplyInv
<1>5. AlignedInv' /\ IdleInv' /\ AskedInv' /\ LastInv' /\ ReplyInv'
  BY <1>1, <1>3, <1>4
     DEF InStep, AlignedInv, Reworded, IdleInv, AskedInv, Asked, LastInv, ReplyInv
<1>6. \A call : First(call) => First(call)'
  BY <1>1, <1>3 DEF First
<1>7. OwnInv'
  <2>1. \A q \in net' : Answering(q.call) /\ q.call.sid = agent.sid => OwnCall(q.call)'
    BY <1>1, <1>3, <1>6 DEF InStep, OwnInv, OwnCall
  <2>2. \A q \in net' : q.phase = "queued" /\ Answering(q.call) => q.call.sid = agent.sid
    BY <1>1, <1>2 DEF InStep, OwnInv
  <2>3. AgentAnswers => OwnCall(agent.call)'
    BY <1>1, <1>6 DEF InStep, OwnInv, OwnCall, First
  <2> QED
    BY <1>1, <2>1, <2>2, <2>3 DEF OwnInv, AgentAnswers, Answering
<1>8. ~l.dup => Fits(r.call)
  <2> SUFFICES ASSUME ~Duplicate(r.call) PROVE Fits(r.call)
    BY <1>2
  <2> DEFINE own == rows[r.call.sid]
             n == Len(own)
  <2>1. r.call.sid \in 1..Len(rows) /\ n \in Nat /\ r.call.said \in Nat /\ r.call \in ToolCall
    BY <1>1, RequestTypes, SessionRows DEF ToolCall
  <2>2. OwnCall(r.call) /\ r.call.sid = agent.sid /\ r.call.question = agent.asking
    BY <1>1 DEF InStep, OwnInv, OwnCall, Answering
  <2>3. agent.state \in {"posting", "interrupted"}
    BY <1>1, <2>2 DEF InStep, IdleInv, Base, TypeOK
  <2>4. Asked
    BY <1>1, <2>2, <2>3 DEF InStep, AskedInv
  <2>5. CASE r.call.question = n + 1
    BY <2>5 DEF Fits
  <2>6. CASE r.call.question # n + 1
    <3>1. n > 0 /\ own[n].question = r.call.question /\ recent[r.call.sid]
      BY <2>2, <2>4, <2>6 DEF Asked
    <3>2. own[n].text # r.call.text
      BY <2>1, <3>1 DEF Duplicate, LastText
    <3>3. ~Repeats(r.call)
      BY <3>2 DEF Repeats
    <3>4. Standing(r.call)
      BY <1>1 DEF UInv, CallsInv, Answering
    <3>5. own[n].said < r.call.said /\ own[n].said \in Nat
      BY <2>1, <3>1, <3>3, <3>4, RowTypes DEF Standing, Older
    <3>6. r.call.again
      <4>1. ~r.call.again => r.call.said <= own[n].said
        BY <2>1, <2>2, <3>1 DEF OwnCall, First
      <4> QED
        BY <2>1, <3>5, <4>1
    <3> QED
      BY <3>1, <3>2, <3>6 DEF Fits
  <2> QED
    BY <2>5, <2>6
<1>9. InsertInv'
  BY <1>1, <1>2, <1>8 DEF InStep, InsertInv, Fits
<1>10. NewestInv'
  BY <1>1, <1>3 DEF InStep, NewestInv, Starting, Answering
<1> QED
  BY <1>1, <1>5, <1>7, <1>9, <1>10 DEF InStep

LEMMA ReturnKeepsStep ==
  ASSUME Base, Prompt, OrderInv, InStep, NEW r \in net, ReturnPending(r)
  PROVE  InStep'
<1> DEFINE response == [sid |-> r.call.sid, next |-> Pending(r.count)]
<1>1. /\ r.phase = "locked" /\ Respond(r, response) /\ rows' = rows /\ recent' = recent
      /\ agent' = agent /\ posts' = posts /\ astray' = astray
  BY DEF ReturnPending, database
<1>2. r.call.sid \in 1..Len(rows) /\ r.count = Len(rows[r.call.sid]) /\ Len(rows) \in Nat
      /\ Answering(r.call)
  BY <1>1, RequestTypes DEF Answering, Base, TypeOK, LockedInv
<1>3. response.sid = r.call.sid /\ response.next = Len(rows[response.sid]) + 1
  BY <1>2 DEF Pending
<1> HIDE DEF response
<1>4. net' \subseteq net
  BY <1>1 DEF Respond
<1>5. ReplyInv'
  BY <1>1, <1>2, <1>3, RespondKeepsReply
<1>6. AlignedInv' /\ IdleInv' /\ AskedInv' /\ LastInv' /\ InsertInv' /\ NewestInv'
  BY <1>1, <1>4
     DEF InStep, AlignedInv, Reworded, IdleInv, AskedInv, Asked, LastInv, InsertInv, Fits,
         NewestInv, Starting, Answering
<1>7. OwnInv'
  BY <1>1, <1>4 DEF InStep, OwnInv, OwnCall, First, AgentAnswers, Answering
<1> QED
  BY <1>1, <1>5, <1>6, <1>7 DEF InStep

LEMMA InsertKeepsStep ==
  ASSUME Base, Prompt, UInv, InStep, NEW r \in net, InsertAnswer(r)
  PROVE  InStep'
<1> DEFINE s == r.call.sid
           row == [text |-> r.call.text, said |-> r.call.said, question |-> r.call.question,
                   again |-> r.call.again]
           response == [sid |-> s, next |-> r.count + 2]
           n == Len(rows[s])
<1>1. /\ r.phase = "locked" /\ ~r.dup /\ s \in 1..Len(rows) /\ row \in Row /\ r.count = n
      /\ rows' = [rows EXCEPT ![s] = Append(@, row)] /\ recent' = [recent EXCEPT ![s] = TRUE]
      /\ Respond(r, response) /\ posts' = posts /\ agent' = agent /\ astray' = astray
  BY InsertEffect
<1>2. row.question = r.call.question /\ row.said = r.call.said /\ row.text = r.call.text
      /\ row.again = r.call.again /\ response.sid = s /\ response.next = r.count + 2
  OBVIOUS
<1> HIDE DEF row
<1>3. /\ Len(rows') = Len(rows)
      /\ \A z \in 1..Len(rows) : z # s => rows'[z] = rows[z]
      /\ Len(rows'[s]) = n + 1
      /\ \A i \in 1..n : rows'[s][i] = rows[s][i]
      /\ rows'[s][n + 1] = row
  BY <1>1, Appended
<1>4. n \in Nat /\ Len(rows) \in Nat /\ Answering(r.call) /\ r.call.question \in Nat
      /\ r.call.said \in Nat
  <2>1. n \in 0..N /\ s # 0 /\ Len(rows) \in Nat
    BY <1>1, SessionRows DEF Base, TypeOK
  <2>2. r.call \in ToolCall
    BY RequestTypes
  <2> QED
    BY <2>1, <2>2, NAssumption DEF ToolCall, Answering
<1>5. recent'[s] = TRUE /\ \A z \in 1..Len(rows) : z # s => recent'[z] = recent[z]
  BY <1>1 DEF Base, TypeOK, KnownInv
<1>6. response.next = Len(rows'[s]) + 1
  BY <1>1, <1>2, <1>3, <1>4
<1> HIDE DEF response
<1>7. net' = net \ {r} /\ agent.sid \in 0..Len(rows)
  BY <1>1 DEF Respond, Base, TypeOK
<1>8. ReplyInv'
  <2>1. /\ Len(rows') \in Nat /\ Len(rows) <= Len(rows') /\ OrderInv
        /\ response.sid \in 1..Len(rows') /\ response.next = Len(rows'[response.sid]) + 1
    BY <1>1, <1>2, <1>3, <1>4, <1>6 DEF UInv
  <2> QED
    BY <1>1, <1>2, <1>3, <1>4, <2>1, RespondKeepsReply
<1>9. Fits(r.call)
  BY <1>1 DEF InStep, InsertInv
<1>10. AlignedInv'
  <2> SUFFICES ASSUME NEW z \in 1..Len(rows), NEW i \in 1..Len(rows'[z])
               PROVE  /\ rows'[z][i].question <= i
                      /\ rows'[z][i].question = i \/ Reworded(rows'[z], i)
    BY <1>3 DEF AlignedInv, Reworded
  <2>1. CASE z # s
    BY <1>3, <2>1 DEF InStep, AlignedInv, Reworded
  <2>2. CASE z = s /\ i \in 1..n
    <3>1. rows[s][i].question <= i /\ (rows[s][i].question = i \/ Reworded(rows[s], i))
      BY <1>1, <2>2 DEF InStep, AlignedInv
    <3>2. i > 1 => i - 1 \in 1..n
      BY <1>4, <2>2
    <3> QED
      BY <1>3, <2>2, <3>1, <3>2 DEF Reworded
  <2>3. CASE z = s /\ i = n + 1
    <3>1. CASE r.call.question = n + 1
      BY <1>2, <1>3, <1>4, <2>3, <3>1
    <3>2. CASE r.call.question # n + 1
      <4>1. n > 0 /\ rows[s][n].question = r.call.question /\ r.call.again
            /\ rows[s][n].text # r.call.text
        BY <1>9, <3>2 DEF Fits
      <4>2. rows[s][n].question <= n /\ n \in 1..n
        <5>1. n \in 1..n
          BY <1>4, <4>1
        <5> QED
          BY <1>1, <5>1 DEF InStep, AlignedInv
      <4>3. rows'[s][n] = rows[s][n] /\ i - 1 = n /\ i > 1
        <5>1. rows'[s][n] = rows[s][n]
          BY <1>3, <4>2
        <5>2. i - 1 = n /\ i > 1
          BY <1>4, <2>3, <4>1
        <5> QED
          BY <5>1, <5>2
      <4>4. rows'[z][i] = row /\ rows'[z][i - 1] = rows[s][n]
        BY <1>3, <2>3, <4>3
      <4>5. Reworded(rows'[z], i)
        BY <1>2, <4>1, <4>3, <4>4 DEF Reworded
      <4>6. rows'[z][i].question <= i
        BY <1>2, <1>4, <2>3, <4>1, <4>2, <4>4
      <4> QED
        BY <4>5, <4>6
    <3> QED
      BY <3>1, <3>2
  <2> QED
    BY <1>3, <1>4, <2>1, <2>2, <2>3
\* the requests that stay and are in a transaction are on other sessions
<1>11. \A q \in net' : q.phase = "locked" => q.call.sid # s /\ q.call.sid \in 1..Len(rows)
  BY <1>1, <1>7, RequestTypes DEF Base, LockedInv
<1>12. InsertInv'
  <2> SUFFICES ASSUME NEW q \in net', q.phase = "locked", ~q.dup PROVE Fits(q.call)'
    BY DEF InsertInv
  <2>1. Fits(q.call) /\ rows'[q.call.sid] = rows[q.call.sid]
    BY <1>3, <1>7, <1>11 DEF InStep, InsertInv
  <2> QED
    BY <2>1 DEF Fits
<1>13. LastInv' /\ NewestInv'
  BY <1>1, <1>3, <1>7 DEF InStep, LastInv, NewestInv, Starting, Answering
<1>14. IdleInv'
  BY <1>1, <1>3, <1>7 DEF InStep, IdleInv
<1>15. AskedInv'
  <2> SUFFICES ASSUME agent.state \in {"posting", "interrupted"}, agent.sid # 0 PROVE Asked'
    BY <1>1 DEF AskedInv
  <2>1. CASE agent.sid # s
    BY <1>1, <1>3, <1>5, <1>7, <2>1 DEF InStep, AskedInv, Asked
  <2>2. CASE agent.sid = s
    <3>1. r.call.question = agent.asking
      BY <1>4, <2>2 DEF InStep, OwnInv, OwnCall
    <3> QED
      BY <1>1, <1>2, <1>3, <1>4, <1>5, <2>2, <3>1 DEF Asked
  <2> QED
    BY <2>1, <2>2
<1>16. ASSUME NEW call \in ToolCall, call.sid \in 1..Len(rows), First(call) PROVE First(call)'
  <2> SUFFICES ASSUME ~call.again
               PROVE  /\ \A i \in 1..Len(rows'[call.sid]) :
                           rows'[call.sid][i].question = call.question
                             => call.said <= rows'[call.sid][i].said
                      /\ \A q \in net' : q.call.sid = call.sid => call.said <= q.call.said
    BY DEF First
  <2>1. \A q \in net' : q.call.sid = call.sid => call.said <= q.call.said
    BY <1>7, <1>16 DEF First
  <2>2. CASE call.sid # s
    BY <1>3, <1>16, <2>1, <2>2 DEF First
  <2>3. CASE call.sid = s
    <3>1. call.said <= r.call.said
      BY <1>16, <2>3 DEF First
    <3>2. \A i \in 1..n + 1 : i \in 1..n \/ i = n + 1
      BY <1>4
    <3> QED
      BY <1>2, <1>3, <1>16, <2>1, <2>3, <3>1, <3>2 DEF First
  <2> QED
    BY <2>2, <2>3
<1>17. OwnInv'
  <2>1. \A q \in net' : Answering(q.call) /\ q.call.sid = agent.sid => OwnCall(q.call)'
    <3> SUFFICES ASSUME NEW q \in net', Answering(q.call), q.call.sid = agent.sid
                 PROVE  OwnCall(q.call)'
      OBVIOUS
    <3>1. OwnCall(q.call) /\ q.call \in ToolCall /\ q.call.sid \in 1..Len(rows)
      BY <1>7, RequestTypes DEF InStep, OwnInv, Answering
    <3>2. First(q.call)'
      BY <1>16, <3>1 DEF OwnCall
    <3> QED
      BY <1>1, <3>1, <3>2 DEF OwnCall
  <2>2. AgentAnswers => OwnCall(agent.call)'
    <3> SUFFICES ASSUME AgentAnswers PROVE OwnCall(agent.call)'
      OBVIOUS
    <3>1. OwnCall(agent.call) /\ agent.call \in ToolCall /\ agent.call.sid \in 1..Len(rows)
      BY <1>7 DEF InStep, OwnInv, OwnCall, AgentAnswers, Answering, Base, TypeOK
    <3>2. PICK call \in ToolCall : call = agent.call
      BY <3>1
    <3>3. First(call)'
      BY <1>16, <3>1, <3>2 DEF OwnCall
    <3> QED
      BY <1>1, <3>1, <3>2, <3>3 DEF OwnCall, First
  <2> QED
    BY <1>1, <1>7, <2>1, <2>2 DEF InStep, OwnInv, AgentAnswers, Answering
<1> QED
  BY <1>1, <1>8, <1>10, <1>12, <1>13, <1>14, <1>15, <1>17 DEF InStep

LEMMA StepNext ==
  Base /\ Prompt /\ UInv /\ (failed \/ InStep) /\ [Next]_vars => (failed \/ InStep)'
<1> SUFFICES ASSUME Base, Prompt, UInv, failed \/ InStep, [Next]_vars, ~failed' PROVE InStep'
  OBVIOUS
<1>1. ~failed
  BY DEF Next, Handle, StartAssessment, SubmitAnswer, Retry, GiveUp, Interrupted, ReceiveReply,
         StartSession, LockAndRead, ReturnPending, InsertAnswer, ApiCrash, WindowElapses, vars
<1>2. InStep
  BY <1>1
<1>3. CASE \E r \in net : Handle(r)
  BY <1>2, <1>3, StartKeepsStep, LockKeepsStep, ReturnKeepsStep, InsertKeepsStep DEF Handle, UInv
<1>4. CASE ApiCrash
  <2>1. agent' = agent
    BY <1>4 DEF ApiCrash
  <2> QED
    BY <1>2, <1>4, <2>1, FrameStep DEF ApiCrash, database
<1>5. CASE \E s \in DOMAIN rows : WindowElapses(s)
  BY <1>2, <1>5, FrameStep DEF WindowElapses
<1>6. CASE UNCHANGED vars
  BY <1>2, <1>6, FrameStep DEF vars, database
<1> QED
  BY <1>2, <1>3, <1>4, <1>5, <1>6, AgentKeepsStep DEF Next

LEMMA StepInit == Init => failed \/ InStep
<1> SUFFICES ASSUME Init PROVE InStep
  OBVIOUS
<1>1. net = {} /\ agent.state = "idle" /\ agent.sid = 0 /\ Len(rows) = 0
  BY DEF Init
<1> QED
  BY <1>1 DEF InStep, AlignedInv, IdleInv, AskedInv, OwnInv, AgentAnswers, InsertInv, LastInv,
              ReplyInv, NewestInv

\* While requests are handled in order and no tool call has failed, every stored answer is the
\* answer to the question at its position, but for rewordings after a barge-in, whatever the
\* LLM submits after one.
THEOREM AnswersAligned ==
  ASSUME Prompt
  PROVE  Spec => []Aligned
<1>1. Base /\ (failed \/ InStep) => Aligned
  <2> SUFFICES ASSUME Base, InStep, NEW s \in DOMAIN rows, NEW i \in DOMAIN rows[s]
               PROVE  rows[s][i].question = i \/ Reworded(rows[s], i)
    BY DEF Aligned
  <2>1. s \in 1..Len(rows) /\ i \in 1..Len(rows[s])
    BY SessionRows DEF Base, TypeOK
  <2> QED
    BY <2>1 DEF InStep, AlignedInv
<1> QED
  BY BaseInit, BaseNext, UInit, UNext, StepInit, StepNext, <1>1, Prompt, PTL DEF Spec

\* ... and when a tool call has returned its result, the agent asks the first question without
\* an answer, and fills the session by_call reports, unless a barge-in cancelled its start.
THEOREM AgentStaysInStep ==
  ASSUME Prompt
  PROVE  Spec => []AgentInStep
<1>1. failed \/ InStep => AgentInStep
  BY DEF AgentInStep, InStep, IdleInv, NewestInv, Starting, NewestSession
<1> QED
  BY BaseInit, BaseNext, UInit, UNext, StepInit, StepNext, <1>1, Prompt, PTL DEF Spec

=============================================================================
