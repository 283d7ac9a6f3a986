------------------------- MODULE InterviewLifecycle -------------------------
(***************************************************************************)
(* The interview orchestrator (app/services/interview_orchestrator.py)     *)
(* behind its endpoints (app/api/interviews.py), and the calls that are    *)
(* attached to an interview (app/api/calls.py).                            *)
(*                                                                         *)
(* A request first checks that its call belongs to the interview, then     *)
(* takes the interview's row lock and reads the row, then writes and       *)
(* commits; an API process that dies in between rolls back.                *)
(*                                                                         *)
(* All interviews are one candidate's.  Every answer goes to the first     *)
(* unanswered position, so the answered positions are 1..answers.          *)
(***************************************************************************)
EXTENDS Integers, FiniteSets, InterviewStates

CONSTANTS
  Interview,    \* the interviews of a candidate
  Call,         \* phone calls and browser sessions, each with its row
  Webrtc,       \* the calls that come from a browser
  Request,      \* requests to /interviews/... handled at the same time
  Questions,    \* questions of an interview
  MaxInvitationAttempts  \* _MAX_INVITATION_ATTEMPTS

ASSUME WebrtcAssumption == Webrtc \subseteq Call
ASSUME QuestionsAssumption == Questions \in Nat \ {0}
ASSUME AttemptsAssumption == MaxInvitationAttempts \in Nat

VARIABLES
  interview,  \* interview[i]: the row, how many questions have an answer row, its expiry
  call,       \* call[c]: the row, with the rejected codes recorded for it
  phone,      \* phone[c]: what the candidate and the agent of call c do
  drives,     \* drives[c]: c was told to start or resume the interview, and is on the line
  request     \* request[r]: the request r handles

vars == <<interview, call, phone, drives, request>>

None == "none"
InterviewRow == [status : InterviewStatus, question : 0..Questions, answers : 0..Questions,
                 expired : BOOLEAN]
CallRow == [status : {"NONE", "ANSWERED", "ACTIVE", "DISCONNECTED", "FAILED"},
            interview : Interview \cup {None}, attempts : 0..MaxInvitationAttempts]
PhoneState == {"off", "on", "closing", "over"}
Op == Intent \cup {"answer", "complete", "interrupt"}

NewInterview == [status |-> "NOT_STARTED", question |-> 0, answers |-> 0, expired |-> FALSE]
NewCall == [status |-> "NONE", interview |-> None, attempts |-> 0]
Idle == [phase |-> "idle", op |-> None, call |-> None, interview |-> None, seen |-> NewInterview]
RequestState ==
  [phase : {"idle", "authorized", "locked"}, op : Op \cup {None}, call : Call \cup {None},
   interview : Interview \cup {None}, seen : InterviewRow]

Init ==
  /\ interview = [i \in Interview |-> NewInterview]
  /\ call = [c \in Call |-> NewCall]
  /\ phone = [c \in Call |-> "off"]
  /\ drives = [c \in Call |-> FALSE]
  /\ request = [r \in Request |-> Idle]

Terminal == {"COMPLETED", "CANCELLED", "EXPIRED"}

EffectiveStatus(row) ==
  IF row.expired /\ row.status \in {"NOT_STARTED", "INTERRUPTED", "RESCHEDULED"}
    THEN "EXPIRED" ELSE row.status

\* next_unanswered_position; 0 is the code's None
NextUnanswered(answers) == IF answers < Questions THEN answers + 1 ELSE 0

HasActiveCall(i) == \E c \in Call : call[c].status = "ACTIVE" /\ call[c].interview = i

-----------------------------------------------------------------------------
(***************************************************************************)
(* Calls and their interview.                                              *)
(***************************************************************************)

\* a Twilio call redeems its token and is ACTIVE; a browser session has no row yet
Connect(c) ==
  /\ phone[c] = "off"
  /\ phone' = [phone EXCEPT ![c] = "on"]
  /\ call' = IF c \in Webrtc THEN call ELSE [call EXCEPT ![c].status = "ACTIVE"]
  /\ UNCHANGED <<interview, drives, request>>

\* the unique index on the interview of ACTIVE calls rejects the write
IndexRejects(c, i) ==
  call[c].status = "ACTIVE" /\ \E d \in Call \ {c} : call[d].status = "ACTIVE" /\ call[d].interview = i

\* list_active_interviews returns i alone
OnlyOpen(i) == {j \in Interview : interview[j].status \notin Terminal} = {i}

\* /calls/inbound: the number is known and its candidate has one open interview, or not
Inbound(c) ==
  LET row == [call[c] EXCEPT !.status = IF @ = "NONE" THEN "ANSWERED" ELSE @] IN
  /\ phone[c] # "off"
  /\ \/ call' = [call EXCEPT ![c] = row]
     \/ \E i \in Interview :
          /\ OnlyOpen(i) /\ ~IndexRejects(c, i)
          /\ call' = [call EXCEPT ![c] = [row EXCEPT !.interview = i]]
  /\ UNCHANGED <<interview, phone, drives, request>>

\* /calls/identify: the same attachment, by the candidate's spoken name
Identify(c) ==
  /\ phone[c] # "off" /\ call[c].status # "NONE"
  /\ \E i \in Interview :
       /\ OnlyOpen(i) /\ ~IndexRejects(c, i)
       /\ call' = [call EXCEPT ![c].interview = i]
  /\ UNCHANGED <<interview, phone, drives, request>>

\* /calls/verify_invitation, with the code of i
VerifyInvitation(c, i) ==
  /\ phone[c] # "off" /\ call[c].status # "NONE"
  /\ call[c].attempts < MaxInvitationAttempts
  /\ IF EffectiveStatus(interview[i]) \in Terminal
       THEN call' = [call EXCEPT ![c].attempts = @ + 1]
       ELSE ~IndexRejects(c, i) /\ call' = [call EXCEPT ![c].interview = i]
  /\ UNCHANGED <<interview, phone, drives, request>>

\* /calls/verify_invitation, with no interview's code
WrongCode(c) ==
  /\ phone[c] # "off" /\ call[c].status # "NONE"
  /\ call[c].attempts < MaxInvitationAttempts
  /\ call' = [call EXCEPT ![c].attempts = @ + 1]
  /\ UNCHANGED <<interview, phone, drives, request>>

\* only a Twilio call is followed up when the candidate hangs up
Hangup(c) ==
  /\ phone[c] = "on"
  /\ phone' = [phone EXCEPT ![c] = IF c \in Webrtc THEN "over" ELSE "closing"]
  /\ drives' = [drives EXCEPT ![c] = FALSE]
  /\ UNCHANGED <<interview, call, request>>

\* close_call, the last step of _on_disconnected
EndCall(c) ==
  /\ phone[c] = "closing"
  /\ phone' = [phone EXCEPT ![c] = "over"]
  /\ call' = [call EXCEPT ![c].status = IF @ = "ACTIVE" THEN "DISCONNECTED" ELSE @]
  /\ UNCHANGED <<interview, drives, request>>

\* the agent process dies: nobody reports the end of the call
AgentCrash(c) ==
  /\ phone[c] \in {"on", "closing"}
  /\ phone' = [phone EXCEPT ![c] = "over"]
  /\ drives' = [drives EXCEPT ![c] = FALSE]
  /\ UNCHANGED <<interview, call, request>>

\* at_concurrency_ceiling, when a later call arrives
HealCall(c) ==
  /\ phone[c] = "over" /\ call[c].status = "ACTIVE"
  /\ call' = [call EXCEPT ![c].status = "FAILED"]
  /\ UNCHANGED <<interview, phone, drives, request>>

Expire(i) ==
  /\ ~interview[i].expired
  /\ interview' = [interview EXCEPT ![i].expired = TRUE]
  /\ UNCHANGED <<call, phone, drives, request>>

-----------------------------------------------------------------------------
(***************************************************************************)
(* Requests about an interview.                                            *)
(***************************************************************************)

\* _authorize_call; the agent asks while the candidate is on the line, and reports the
\* interruption after a hangup
Authorize(r, c, op) ==
  /\ request[r].phase = "idle"
  /\ phone[c] = "on" \/ (phone[c] = "closing" /\ op = "interrupt")
  /\ call[c].interview # None
  /\ request' = [request EXCEPT ![r] =
       [phase |-> "authorized", op |-> op, call |-> c, interview |-> call[c].interview,
        seen |-> NewInterview]]
  /\ UNCHANGED <<interview, call, phone, drives>>

UnlockedAlways(i) == TRUE  \* mutant: SELECT without FOR UPDATE
Unlocked(i) == \A r \in Request : ~(request[r].phase = "locked" /\ request[r].interview = i)

\* _lock_interview
LockInterview(r) ==
  LET i == request[r].interview IN
  /\ request[r].phase = "authorized"
  /\ Unlocked(i)
  /\ request' = [request EXCEPT ![r].phase = "locked", ![r].seen = interview[i]]
  /\ UNCHANGED <<interview, call, phone, drives>>

\* What a request does with the row it has read: the new status, pointer and number of
\* answers, and what it tells the caller.
Effect(row, verdict) ==
  [status |-> row.status, question |-> row.question, answers |-> row.answers, verdict |-> verdict]

StartFromOne(row, i) ==  \* mutant: START always begins at the first question
  IF HasActiveCall(i) THEN Effect(row, "BUSY")
  ELSE Effect([row EXCEPT !.status = "IN_PROGRESS", !.question = 1], "START")
Start(row, i) ==
  IF HasActiveCall(i) THEN Effect(row, "BUSY")
  ELSE IF ~CanTransition(row.status, "IN_PROGRESS") THEN Effect(row, "REJECT")
  ELSE Effect([row EXCEPT !.status = "IN_PROGRESS",
                          !.question = IF row.answers < Questions THEN row.answers + 1 ELSE 1], "START")

Resume(row) ==
  IF NextUnanswered(row.answers) = 0 THEN Effect([row EXCEPT !.status = "COMPLETED"], "REJECT")
  ELSE Effect([row EXCEPT !.status = "IN_PROGRESS", !.question = NextUnanswered(row.answers)],
              "RESUME")

Reschedule(row) ==
  IF CanTransition(row.status, "RESCHEDULED")
    THEN Effect([row EXCEPT !.status = "RESCHEDULED"], "RESCHEDULE")
    ELSE Effect(row, "REJECT")

DecideAndExecute(row, i, intent) ==
  LET action == ResolveAction(EffectiveStatus(row), intent) IN
  CASE action = "START" -> Start(row, i)
    [] action = "RESUME" -> Resume(row)
    [] action = "RESCHEDULE" -> Reschedule(row)
    [] OTHER -> Effect(row, action)

\* mutant: the pointer moves on and the interview stays open
FinishNever(row) == Effect([row EXCEPT !.question = row.answers + 1], "next")
Finish(row) == Effect([row EXCEPT !.status = "COMPLETED"], "done")

RecordAnswer(row) ==
  IF row.status # "IN_PROGRESS" THEN Effect(row, "none")
  ELSE IF row.answers = Questions THEN Finish(row)
  ELSE IF row.answers + 1 = Questions THEN Finish([row EXCEPT !.answers = Questions])
  ELSE Effect([row EXCEPT !.answers = row.answers + 1, !.question = row.answers + 2], "next")

CompleteInterview(row) ==
  IF CanTransition(row.status, "COMPLETED") THEN Effect([row EXCEPT !.status = "COMPLETED"], "done")
  ELSE Effect(row, "error")

MarkInterrupted(row) ==
  IF row.status = "IN_PROGRESS" THEN Effect([row EXCEPT !.status = "INTERRUPTED"], "interrupted")
  ELSE Effect(row, "none")

EffectFor(op, row, i) ==
  CASE op = "answer" -> RecordAnswer(row)
    [] op = "complete" -> CompleteInterview(row)
    [] op = "interrupt" -> MarkInterrupted(row)
    [] OTHER -> DecideAndExecute(row, i, op)

EffectOf(r) == EffectFor(request[r].op, request[r].seen, request[r].interview)

\* The columns a request assigns are written and the transaction commits.  Two answer
\* rows for one question violate a unique constraint, and the transaction rolls back.
Commit(r) ==
  LET i == request[r].interview
      c == request[r].call
      e == EffectOf(r)
  IN
  /\ request[r].phase = "locked"
  /\ IF e.answers # request[r].seen.answers /\ interview[i].answers # request[r].seen.answers
       THEN UNCHANGED <<interview, drives>>
       ELSE /\ interview' = [interview EXCEPT
                 ![i].status = IF e.status = request[r].seen.status THEN @ ELSE e.status,
                 ![i].question = IF e.question = request[r].seen.question THEN @ ELSE e.question,
                 ![i].answers = IF e.answers = request[r].seen.answers THEN @ ELSE e.answers]
            /\ drives' = [drives EXCEPT ![c] =
                 IF e.verdict \in {"START", "RESUME"} THEN phone[c] = "on" ELSE @]
  /\ request' = [request EXCEPT ![r] = Idle]
  /\ UNCHANGED <<call, phone>>

\* the connection or the API process fails before the commit
Abort(r) ==
  /\ request[r].phase # "idle"
  /\ request' = [request EXCEPT ![r] = Idle]
  /\ UNCHANGED <<interview, call, phone, drives>>

-----------------------------------------------------------------------------
Handle(r) == (\E c \in Call, op \in Op : Authorize(r, c, op)) \/ LockInterview(r) \/ Commit(r) \/ Abort(r)
CallStep(c) ==
  \/ Connect(c) \/ Inbound(c) \/ Identify(c) \/ (\E i \in Interview : VerifyInvitation(c, i)) \/ WrongCode(c)
  \/ Hangup(c) \/ EndCall(c) \/ AgentCrash(c) \/ HealCall(c)

Next ==
  \/ \E r \in Request : Handle(r)
  \/ \E c \in Call : CallStep(c)
  \/ \E i \in Interview : Expire(i)

Spec == Init /\ [][Next]_vars
-----------------------------------------------------------------------------
(***************************************************************************)
(* Properties.                                                             *)
(***************************************************************************)

\* The values every variable takes.
TypeOK ==
  /\ interview \in [Interview -> InterviewRow]
  /\ call \in [Call -> CallRow]
  /\ phone \in [Call -> PhoneState]
  /\ drives \in [Call -> BOOLEAN]
  /\ request \in [Request -> RequestState]

\* The stored status changes only along the table of states.py, also where the code
\* assigns it without assert_transition (_resume, mark_interrupted).
LegalTransitions ==
  [][\A i \in Interview : interview'[i].status # interview[i].status
       => CanTransition(interview[i].status, interview'[i].status)]_vars

\* An interview that is under way or interrupted has a question left, and the pointer shown
\* to the caller is the first unanswered position, whatever was interrupted, rescheduled
\* and started again (_finish; record_answer: "a stale pointer can't skip or repeat a
\* question").
PointerIsNext ==
  \A i \in Interview :
    interview[i].status \in {"IN_PROGRESS", "INTERRUPTED"}
      => /\ interview[i].answers < Questions
         /\ interview[i].question = NextUnanswered(interview[i].answers)

\* A request decides on the row as it is when it commits, so its answer row is the first
\* for that question and the unique constraint is never met (_lock_interview).
DecidesOnCurrentRow ==
  \A r \in Request : request[r].phase = "locked" =>
    LET row == interview[request[r].interview] IN
    /\ request[r].seen.status = row.status
    /\ request[r].seen.answers = row.answers

\* Two calls do not own one interview: of the calls on the line, at most one has been told
\* to start or resume it (interview_orchestrator.py:3-6).
OneDriver ==
  \A c, d \in Call :
    drives[c] /\ drives[d] /\ call[c].interview = call[d].interview
      /\ interview[call[c].interview].status = "IN_PROGRESS" => c = d

\* "This interview is already in progress on another call" is said when there is another
\* call (_start).
RefusedForAnotherCall ==
  \A r \in Request :
    request[r].phase = "locked" /\ EffectOf(r).verdict = "BUSY" =>
      \E c \in Call \ {request[r].call} :
        call[c].status = "ACTIVE" /\ call[c].interview = request[r].interview

=============================================================================
