---------------------- MODULE InterviewLifecycleProofs ----------------------
(***************************************************************************)
(* Proofs about InterviewLifecycle, for any interviews, calls, requests    *)
(* and number of questions.                                                *)
(*                                                                         *)
(* What the runs check of the status and the pointer is not inductive by   *)
(* itself: a START could leave an interview without a question if the      *)
(* RESCHEDULED row had them all answered.  RowInv says that only COMPLETED *)
(* rows do.  The other half is the row lock: what a request has read stays *)
(* true until it commits (LockInv).                                        *)
(***************************************************************************)
EXTENDS InterviewLifecycle, TLAPS

\* A row has a question left unless it is COMPLETED, and its pointer is the first one
\* left while the interview is open.
RowInv(row) ==
  /\ row.status # "COMPLETED" => row.answers < Questions
  /\ row.status \in {"IN_PROGRESS", "INTERRUPTED"} => row.question = row.answers + 1

RowsInv == \A i \in Interview : RowInv(interview[i])

\* A request under way has an operation, a call and an interview.
RequestInv ==
  \A r \in Request : request[r].phase # "idle" =>
    request[r].op \in Op /\ request[r].call \in Call /\ request[r].interview \in Interview

\* The lock is exclusive, and what its owner has read is what the row holds.
LockInv ==
  /\ \A r, q \in Request :
       request[r].phase = "locked" /\ request[q].phase = "locked"
         /\ request[r].interview = request[q].interview => r = q
  /\ \A r \in Request : request[r].phase = "locked" =>
       LET row == interview[request[r].interview] IN
       /\ request[r].seen.status = row.status
       /\ request[r].seen.question = row.question
       /\ request[r].seen.answers = row.answers

Inv == TypeOK /\ RowsInv /\ RequestInv /\ LockInv

-----------------------------------------------------------------------------
\* Whatever a request does with a row it has read, the new columns have their types, the
\* status moves along the table of states.py, and RowInv holds again
\* (decide_and_execute, record_answer, complete_interview, mark_interrupted).
LEMMA EffectSound ==
  ASSUME NEW row \in InterviewRow, RowInv(row), NEW op \in Op, NEW i
  PROVE  LET e == EffectFor(op, row, i) IN
         /\ e.status \in InterviewStatus
         /\ e.question \in 0..Questions
         /\ e.answers \in 0..Questions
         /\ e.status = row.status \/ CanTransition(row.status, e.status)
         /\ e.status # "COMPLETED" => e.answers < Questions
         /\ e.status \in {"IN_PROGRESS", "INTERRUPTED"} => e.question = e.answers + 1
<1> DEFINE Sound(e) ==
      /\ e.status \in InterviewStatus
      /\ e.question \in 0..Questions
      /\ e.answers \in 0..Questions
      /\ e.status = row.status \/ CanTransition(row.status, e.status)
      /\ e.status # "COMPLETED" => e.answers < Questions
      /\ e.status \in {"IN_PROGRESS", "INTERRUPTED"} => e.question = e.answers + 1
<1>0. Questions \in Nat \ {0}
  BY QuestionsAssumption
<1>row. /\ row.status \in InterviewStatus
        /\ row.question \in 0..Questions
        /\ row.answers \in 0..Questions
        /\ row.status # "COMPLETED" => row.answers < Questions
        /\ row.status \in {"IN_PROGRESS", "INTERRUPTED"} => row.question = row.answers + 1
  BY DEF InterviewRow, RowInv
<1>same. ASSUME NEW v PROVE Sound(Effect(row, v))
  BY <1>row DEF Effect
<1>finish. ASSUME NEW new \in InterviewRow, row.status = "IN_PROGRESS"
           PROVE  Sound(Finish(new))
  BY <1>row, <1>finish DEF Finish, Effect, InterviewRow, InterviewStatus, CanTransition,
     AllowedTransitions
<1>1. ASSUME op = "answer" PROVE Sound(RecordAnswer(row))
  <2>1. CASE row.status # "IN_PROGRESS"
    BY <2>1, <1>same DEF RecordAnswer
  <2>2. CASE row.status = "IN_PROGRESS" /\ row.answers = Questions
    BY <2>2, <1>finish DEF RecordAnswer
  <2>3. CASE row.status = "IN_PROGRESS" /\ row.answers # Questions /\ row.answers + 1 = Questions
    <3>1. [row EXCEPT !.answers = Questions] \in InterviewRow
      BY <1>0, <1>row DEF InterviewRow
    <3> QED
      BY <2>3, <3>1, <1>finish DEF RecordAnswer
  <2>4. CASE row.status = "IN_PROGRESS" /\ row.answers # Questions /\ row.answers + 1 # Questions
    BY <2>4, <1>0, <1>row DEF RecordAnswer, Effect, InterviewRow
  <2> QED
    BY <2>1, <2>2, <2>3, <2>4
<1>2. Sound(CompleteInterview(row))
  <2>1. CASE CanTransition(row.status, "COMPLETED")
    BY <2>1, <1>0, <1>row DEF CompleteInterview, Effect, InterviewRow, InterviewStatus
  <2>2. CASE ~CanTransition(row.status, "COMPLETED")
    BY <2>2, <1>same DEF CompleteInterview
  <2> QED
    BY <2>1, <2>2
<1>3. Sound(MarkInterrupted(row))
  <2>1. CASE row.status = "IN_PROGRESS"
    BY <2>1, <1>0, <1>row DEF MarkInterrupted, Effect, InterviewRow, InterviewStatus,
       CanTransition, AllowedTransitions
  <2>2. CASE row.status # "IN_PROGRESS"
    BY <2>2, <1>same DEF MarkInterrupted
  <2> QED
    BY <2>1, <2>2
<1>4. ASSUME op \in Intent PROVE Sound(DecideAndExecute(row, i, op))
  <2> DEFINE status == EffectiveStatus(row)
             action == ResolveAction(status, op)
  <2>1. CASE action = "START"
    <3>1. row.status \in {"NOT_STARTED", "RESCHEDULED"}
      BY <2>1, <1>row, <1>4 DEF ResolveAction, EffectiveStatus, InterviewStatus, Intent
    <3>2. Sound(Start(row, i))
      <4>1. CASE HasActiveCall(i)
        BY <4>1, <1>same DEF Start
      <4>2. CASE ~HasActiveCall(i)
        BY <4>2, <3>1, <1>0, <1>row DEF Start, Effect, InterviewRow, InterviewStatus,
           CanTransition, AllowedTransitions
      <4> QED
        BY <4>1, <4>2
    <3> QED
      BY <2>1, <3>2 DEF DecideAndExecute
  <2>2. CASE action = "RESUME"
    <3>1. row.status \in {"INTERRUPTED", "IN_PROGRESS"}
      BY <2>2, <1>row, <1>4 DEF ResolveAction, EffectiveStatus, InterviewStatus, Intent
    <3>2. NextUnanswered(row.answers) = row.answers + 1 /\ row.answers + 1 # 0
      BY <3>1, <1>0, <1>row DEF NextUnanswered
    <3>3. Sound(Resume(row))
      BY <3>1, <3>2, <1>0, <1>row DEF Resume, Effect, InterviewRow, InterviewStatus,
         CanTransition, AllowedTransitions
    <3> QED
      BY <2>2, <3>3 DEF DecideAndExecute
  <2>3. CASE action = "RESCHEDULE"
    <3>1. Sound(Reschedule(row))
      <4>1. CASE CanTransition(row.status, "RESCHEDULED")
        <5>1. row.status # "COMPLETED"
          BY <4>1 DEF CanTransition, AllowedTransitions, InterviewStatus
        <5> QED
          BY <4>1, <5>1, <1>0, <1>row DEF Reschedule, Effect, InterviewRow, InterviewStatus
      <4>2. CASE ~CanTransition(row.status, "RESCHEDULED")
        BY <4>2, <1>same DEF Reschedule
      <4> QED
        BY <4>1, <4>2
    <3> QED
      BY <2>3, <3>1 DEF DecideAndExecute
  <2>4. CASE action \notin {"START", "RESUME", "RESCHEDULE"}
    BY <2>4, <1>same DEF DecideAndExecute
  <2> QED
    BY <2>1, <2>2, <2>3, <2>4
<1>5. Sound(EffectFor(op, row, i))
  <2>1. CASE op = "answer"
    BY <2>1, <1>1 DEF EffectFor
  <2>2. CASE op = "complete"
    BY <2>2, <1>2 DEF EffectFor
  <2>3. CASE op = "interrupt"
    BY <2>3, <1>3 DEF EffectFor
  <2>4. CASE op \notin {"answer", "complete", "interrupt"}
    BY <2>4, <1>4 DEF EffectFor, Op
  <2> QED
    BY <2>1, <2>2, <2>3, <2>4
<1> QED
  BY <1>5

-----------------------------------------------------------------------------
LEMMA InitInv == Init => Inv
  BY QuestionsAssumption, AttemptsAssumption
     DEF Init, Inv, TypeOK, RowsInv, RowInv, RequestInv, LockInv, InterviewRow, InterviewStatus,
         CallRow, PhoneState, RequestState, NewInterview, NewCall, Idle

\* A step that leaves interviews and requests alone keeps everything but the types of calls.
LEMMA CallStepInv ==
  ASSUME Inv, NEW c \in Call, CallStep(c)
  PROVE  Inv' /\ UNCHANGED interview
<1> USE DEF TypeOK, CallRow, PhoneState
<1>0. MaxInvitationAttempts \in Nat
  BY AttemptsAssumption
<1>1. UNCHANGED <<interview, request>>
  BY DEF CallStep, Connect, Inbound, Identify, VerifyInvitation, WrongCode, Hangup, EndCall,
         AgentCrash, HealCall
<1>2. phone' \in [Call -> PhoneState] /\ drives' \in [Call -> BOOLEAN]
  BY DEF Inv, CallStep, Connect, Inbound, Identify, VerifyInvitation, WrongCode, Hangup, EndCall,
         AgentCrash, HealCall
<1>3. call' \in [Call -> CallRow]
  <2>1. CASE Connect(c) \/ Hangup(c) \/ EndCall(c) \/ AgentCrash(c) \/ HealCall(c)
    <3>1. CASE Connect(c)
      BY <3>1 DEF Inv, Connect
    <3>2. CASE AgentCrash(c)
      BY <3>2 DEF Inv, AgentCrash
    <3>3. CASE Hangup(c)
      BY <3>3 DEF Inv, Hangup
    <3>4. CASE EndCall(c) \/ HealCall(c)
      BY <3>4 DEF Inv, EndCall, HealCall
    <3> QED
      BY <2>1, <3>1, <3>2, <3>3, <3>4
  <2>2. CASE Inbound(c)
    <3> DEFINE row == [call[c] EXCEPT !.status = IF @ = "NONE" THEN "ANSWERED" ELSE @]
    <3>1. row \in CallRow /\ \A i \in Interview : [row EXCEPT !.interview = i] \in CallRow
      BY DEF Inv
    <3>2. \/ call' = [call EXCEPT ![c] = row]
          \/ \E i \in Interview : call' = [call EXCEPT ![c] = [row EXCEPT !.interview = i]]
      BY <2>2 DEF Inbound
    <3> HIDE DEF row
    <3> QED
      BY <3>1, <3>2 DEF Inv
  <2>4. CASE Identify(c)
    BY <2>4 DEF Inv, Identify
  <2>3. CASE WrongCode(c) \/ \E i \in Interview : VerifyInvitation(c, i)
    BY <2>3, <1>0 DEF Inv, WrongCode, VerifyInvitation
  <2> QED
    BY <2>1, <2>2, <2>3, <2>4 DEF CallStep
<1> QED
  BY <1>1, <1>2, <1>3 DEF Inv, RowsInv, RequestInv, LockInv

LEMMA ExpireInv ==
  ASSUME Inv, NEW i \in Interview, Expire(i)
  PROVE  /\ Inv'
         /\ \A j \in Interview : interview'[j].status = interview[j].status
<1>1. /\ interview' \in [Interview -> InterviewRow]
      /\ \A j \in Interview : /\ interview'[j].status = interview[j].status
                              /\ interview'[j].question = interview[j].question
                              /\ interview'[j].answers = interview[j].answers
  BY DEF Inv, TypeOK, Expire, InterviewRow
<1>2. UNCHANGED <<call, phone, drives, request>>
  BY DEF Expire
<1>3. TypeOK'
  BY <1>1, <1>2 DEF Inv, TypeOK
<1>4. RowsInv'
  BY <1>1 DEF Inv, RowsInv, RowInv
<1>5. RequestInv' /\ LockInv'
  BY <1>1, <1>2 DEF Inv, RequestInv, LockInv
<1> QED
  BY <1>1, <1>3, <1>4, <1>5 DEF Inv

LEMMA AuthorizeInv ==
  ASSUME Inv, NEW r \in Request, NEW c \in Call, NEW op \in Op, Authorize(r, c, op)
  PROVE  Inv' /\ UNCHANGED interview
<1> DEFINE new == [phase |-> "authorized", op |-> op, call |-> c,
                   interview |-> call[c].interview, seen |-> NewInterview]
<1>1. /\ UNCHANGED <<interview, call, phone, drives>>
      /\ call[c].interview \in Interview
      /\ request' = [request EXCEPT ![r] = new]
  <2>1. call[c].interview \in Interview
    BY DEF Authorize, Inv, TypeOK, CallRow
  <2> QED
    BY <2>1 DEF Authorize
<1>2. TypeOK'
  BY <1>1, QuestionsAssumption
     DEF Inv, TypeOK, RequestState, InterviewRow, InterviewStatus, NewInterview
<1>3. RequestInv'
  BY <1>1 DEF Inv, RequestInv, TypeOK
<1>4. LockInv'
  BY <1>1 DEF Inv, LockInv, TypeOK
<1> QED
  BY <1>1, <1>2, <1>3, <1>4 DEF Inv, RowsInv

LEMMA LockInterviewInv ==
  ASSUME Inv, NEW r \in Request, LockInterview(r)
  PROVE  Inv' /\ UNCHANGED interview
<1>1. /\ UNCHANGED <<interview, call, phone, drives>>
      /\ request[r].phase = "authorized"
      /\ request[r].interview \in Interview
      /\ \A q \in Request : ~(request[q].phase = "locked"
                               /\ request[q].interview = request[r].interview)
      /\ request' = [request EXCEPT ![r].phase = "locked",
                                     ![r].seen = interview[request[r].interview]]
  BY DEF LockInterview, Unlocked, Inv, RequestInv
<1>2. TypeOK'
  BY <1>1, ZenonT(30) DEF Inv, TypeOK, RequestState
<1>3. \A q \in Request : /\ request'[q].op = request[q].op
                         /\ request'[q].call = request[q].call
                         /\ request'[q].interview = request[q].interview
                         /\ q # r => request'[q] = request[q]
  BY <1>1 DEF Inv, TypeOK, RequestState
<1>4. RequestInv'
  BY <1>1, <1>3 DEF Inv, RequestInv
<1>5. request'[r].phase = "locked" /\ request'[r].seen = interview[request[r].interview]
  BY <1>1 DEF Inv, TypeOK, RequestState
<1>6. LockInv'
  <2>1. \A q \in Request : q # r /\ request'[q].phase = "locked" =>
          request[q].phase = "locked" /\ request'[q].interview # request'[r].interview
    BY <1>1, <1>3
  <2>2. \A q, p \in Request :
          request'[q].phase = "locked" /\ request'[p].phase = "locked"
            /\ request'[q].interview = request'[p].interview => q = p
    BY <1>3, <2>1 DEF Inv, LockInv
  <2>3. \A q \in Request : request'[q].phase = "locked" =>
          LET row == interview[request'[q].interview] IN
          /\ request'[q].seen.status = row.status
          /\ request'[q].seen.question = row.question
          /\ request'[q].seen.answers = row.answers
    BY <1>3, <1>5, <2>1, SMTT(20) DEF Inv, LockInv
  <2> QED
    BY <1>1, <2>2, <2>3 DEF LockInv
<1> QED
  BY <1>1, <1>2, <1>4, <1>6 DEF Inv, RowsInv

LEMMA AbortInv ==
  ASSUME Inv, NEW r \in Request, Abort(r)
  PROVE  Inv' /\ UNCHANGED interview
<1>1. /\ UNCHANGED <<interview, call, phone, drives>>
      /\ request' = [request EXCEPT ![r] = Idle]
  BY DEF Abort
<1>2. TypeOK'
  BY <1>1, QuestionsAssumption
     DEF Inv, TypeOK, RequestState, InterviewRow, InterviewStatus, NewInterview, Idle
<1>3. RequestInv' /\ LockInv'
  BY <1>1 DEF Inv, RequestInv, LockInv, TypeOK, Idle
<1> QED
  BY <1>1, <1>2, <1>3 DEF Inv, RowsInv

-----------------------------------------------------------------------------
\* The commit of a request: the row lock has kept what it read true, so what it writes is
\* what EffectSound says of the row itself.
LEMMA CommitInv ==
  ASSUME Inv, NEW r \in Request, Commit(r)
  PROVE  /\ Inv'
         /\ \A j \in Interview : interview'[j].status = interview[j].status
                                 \/ CanTransition(interview[j].status, interview'[j].status)
<1> DEFINE i == request[r].interview
           c == request[r].call
           e == EffectOf(r)
<1>1. /\ request[r].phase = "locked"
      /\ request[r].op \in Op /\ c \in Call /\ i \in Interview
      /\ request' = [request EXCEPT ![r] = Idle]
      /\ UNCHANGED <<call, phone>>
  BY DEF Commit, Inv, RequestInv
<1>2. /\ request[r].seen \in InterviewRow
      /\ interview[i] \in InterviewRow
      /\ request[r].seen.status = interview[i].status
      /\ request[r].seen.question = interview[i].question
      /\ request[r].seen.answers = interview[i].answers
  BY <1>1 DEF Inv, TypeOK, LockInv, RequestState
<1>3. RowInv(request[r].seen)
  BY <1>1, <1>2 DEF Inv, RowsInv, RowInv
<1>4. /\ e.status \in InterviewStatus
      /\ e.question \in 0..Questions
      /\ e.answers \in 0..Questions
      /\ e.status = interview[i].status \/ CanTransition(interview[i].status, e.status)
      /\ e.status # "COMPLETED" => e.answers < Questions
      /\ e.status \in {"IN_PROGRESS", "INTERRUPTED"} => e.question = e.answers + 1
  BY <1>1, <1>2, <1>3, EffectSound DEF EffectOf
<1>5. /\ interview' \in [Interview -> InterviewRow]
      /\ \A j \in Interview : j # i => interview'[j] = interview[j]
      /\ interview'[i].status = e.status
      /\ interview'[i].question = e.question
      /\ interview'[i].answers = e.answers
  <2> HIDE DEF e
  <2>1. interview' = [interview EXCEPT
           ![i].status = IF e.status = request[r].seen.status THEN @ ELSE e.status,
           ![i].question = IF e.question = request[r].seen.question THEN @ ELSE e.question,
           ![i].answers = IF e.answers = request[r].seen.answers THEN @ ELSE e.answers]
    BY <1>2 DEF Commit, e
  <2> QED
    BY <2>1, <1>1, <1>2, <1>4 DEF Inv, TypeOK, InterviewRow
<1>6. drives' \in [Call -> BOOLEAN]
  BY DEF Commit, Inv, TypeOK
<1> HIDE DEF e
<1>7. TypeOK'
  BY <1>1, <1>5, <1>6, QuestionsAssumption
     DEF Inv, TypeOK, RequestState, InterviewRow, InterviewStatus, NewInterview, Idle
<1>8. RowsInv'
  BY <1>4, <1>5 DEF Inv, RowsInv, RowInv
<1>9. RequestInv'
  BY <1>1 DEF Inv, RequestInv, TypeOK, Idle
<1>10. LockInv'
  <2>1. /\ request'[r].phase = "idle"
        /\ \A q \in Request : q # r => request'[q] = request[q]
    BY <1>1 DEF Inv, TypeOK, Idle
  <2>2. \A q \in Request : request'[q].phase = "locked" =>
          q # r /\ request[q].phase = "locked" /\ request[q].interview # i
    BY <2>1, <1>1 DEF Inv, LockInv
  <2>3. \A q \in Request : request[q].phase = "locked" => request[q].interview \in Interview
    BY DEF Inv, RequestInv
  <2> QED
    BY <2>1, <2>2, <2>3, <1>5 DEF Inv, LockInv
<1> QED
  BY <1>4, <1>5, <1>7, <1>8, <1>9, <1>10 DEF Inv

LEMMA NextInv ==
  ASSUME Inv, [Next]_vars
  PROVE  /\ Inv'
         /\ \A j \in Interview : interview'[j].status = interview[j].status
                                 \/ CanTransition(interview[j].status, interview'[j].status)
<1>1. ASSUME NEW r \in Request, NEW c \in Call, NEW op \in Op, Authorize(r, c, op)
      PROVE  Inv' /\ UNCHANGED interview
  BY <1>1, AuthorizeInv
<1>2. ASSUME NEW r \in Request, LockInterview(r) PROVE Inv' /\ UNCHANGED interview
  BY <1>2, LockInterviewInv
<1>3. ASSUME NEW r \in Request, Abort(r) PROVE Inv' /\ UNCHANGED interview
  BY <1>3, AbortInv
<1>4. ASSUME NEW r \in Request, Commit(r)
      PROVE  /\ Inv'
             /\ \A j \in Interview : interview'[j].status = interview[j].status
                                     \/ CanTransition(interview[j].status, interview'[j].status)
  BY <1>4, CommitInv
<1>5. ASSUME NEW c \in Call, CallStep(c) PROVE Inv' /\ UNCHANGED interview
  BY <1>5, CallStepInv
<1>6. ASSUME NEW i \in Interview, Expire(i)
      PROVE  Inv' /\ \A j \in Interview : interview'[j].status = interview[j].status
  BY <1>6, ExpireInv
<1>7. CASE UNCHANGED vars
  BY <1>7 DEF vars, Inv, TypeOK, RowsInv, RequestInv, LockInv
<1> QED
  BY <1>1, <1>2, <1>3, <1>4, <1>5, <1>6, <1>7 DEF Next, Handle

-----------------------------------------------------------------------------
LEMMA Invariance == Spec => []Inv
<1>1. Init => Inv
  BY InitInv
<1>2. Inv /\ [Next]_vars => Inv'
  BY NextInv
<1> QED
  BY <1>1, <1>2, PTL DEF Spec

\* Every variable of the interview model keeps its type: the pointer and the number of
\* answers never pass the number of questions.
THEOREM TypeCorrect == Spec => []TypeOK
<1>1. Inv => TypeOK
  BY DEF Inv
<1> QED
  BY <1>1, Invariance, PTL

\* For any number of calls and requests at once, an interview that is under way or
\* interrupted has a question left to ask, and its pointer is the first one without an
\* answer (_finish, _resume).
THEOREM PointerFollowsAnswers == Spec => []PointerIsNext
<1>1. Inv => PointerIsNext
  BY QuestionsAssumption
     DEF Inv, TypeOK, InterviewRow, RowsInv, RowInv, PointerIsNext, NextUnanswered
<1> QED
  BY <1>1, Invariance, PTL

\* A request acts on the row as it is when it commits (_lock_interview).
THEOREM RequestsDecideOnCurrentRow == Spec => []DecidesOnCurrentRow
<1>1. Inv => DecidesOnCurrentRow
  BY DEF Inv, LockInv, DecidesOnCurrentRow
<1> QED
  BY <1>1, Invariance, PTL

\* The stored status moves only along the table of states.py, also where the code assigns
\* it unchecked.
THEOREM StatusFollowsTable == Spec => LegalTransitions
<1>1. Inv /\ [Next]_vars =>
        \A i \in Interview : interview'[i].status # interview[i].status
          => CanTransition(interview[i].status, interview'[i].status)
  BY NextInv
<1> QED
  BY <1>1, Invariance, PTL DEF Spec, LegalTransitions

=============================================================================
