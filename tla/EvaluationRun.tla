---------------------------- MODULE EvaluationRun ----------------------------
(***************************************************************************)
(* evaluate_interview of app/services/evaluation_service.py: the           *)
(* recruiter's request that has every answered question of one interview   *)
(* scored by a model, 0 to 5.  A request is one transaction: it reads the  *)
(* answers once, then for each question looks for an earlier score and     *)
(* calls the model if there is none (or if forced).  Requests overlap; the *)
(* table has no unique constraint, and what a request wrote is invisible   *)
(* to the others until it commits.  Answers keep arriving meanwhile.       *)
(*                                                                         *)
(* A row is named by the request that inserted it and its question: a      *)
(* request inserts at most one row per question.                           *)
(***************************************************************************)
EXTENDS Integers, Sequences

CONSTANTS
  Run,      \* the requests
  N,        \* questions of the interview, answered in order
  Reply,    \* numbers the model may send as the score
  None      \* a reply that is no score, a score that is NULL, a row that is not there

Question == 1..N
Score == 0..5
NoRow == <<None, 0>>

ASSUME RunAssumption == None \notin Run /\ None \notin Int
ASSUME CountAssumption == N \in Nat
ASSUME ReplyAssumption == Reply \subseteq Int

VARIABLES
  answered,  \* the questions 1..answered have an InterviewAnswer
  score,     \* the committed answer_evaluation rows, by name
  run        \* the requests and their transactions

vars == <<answered, score, run>>

Phase == {"idle", "selecting", "judging", "committed", "aborted"}

\* upto: answers read at the start; done: questions dealt with; found: the earlier row,
\* and seen: the score it had; written: scores inserted or updated and not yet committed;
\* locked: rows updated and not yet committed; report: the scores returned; earlier: the
\* requests that had committed when this one began (history)
NewRun ==
  [phase |-> "idle", force |-> FALSE, upto |-> 0, done |-> 0, found |-> NoRow, seen |-> None,
   written |-> <<>>, locked |-> {}, report |-> <<>>, earlier |-> {}]

Init ==
  /\ answered \in Question \cup {0}
  /\ score = <<>>
  /\ run = [r \in Run |-> NewRun]

Running(r) == run[r].phase \in {"selecting", "judging"}
RowsOf(q) == {k \in DOMAIN score : k[2] = q}
-----------------------------------------------------------------------------
\* record_answer of the interview, committed by the call that goes on
RecordAnswer ==
  /\ answered < N
  /\ answered' = answered + 1
  /\ UNCHANGED <<score, run>>

\* the join of answers and questions is read once
Begin(r, force) ==
  /\ run[r].phase = "idle"
  /\ run' = [run EXCEPT
       ![r].phase = "selecting", ![r].force = force, ![r].upto = answered,
       ![r].earlier = {s \in Run : run[s].phase = "committed"}]
  /\ UNCHANGED <<answered, score>>

\* ORDER BY position
Current(r) == run[r].done + 1
MoreToDo(r) == run[r].done < run[r].upto

UseNever(r) == FALSE   \* mutant: an earlier score is never used
\* if existing and not force
UseExisting(r) == ~run[r].force

\* the SELECT of an earlier row has no ORDER BY: with several, it returns any
Select(r) ==
  LET q == Current(r) IN
  /\ run[r].phase = "selecting" /\ MoreToDo(r)
  /\ \/ /\ UseExisting(r)
        /\ \E k \in RowsOf(q) :
             run' = [run EXCEPT ![r].done = @ + 1, ![r].report = Append(@, score[k])]
     \/ /\ ~UseExisting(r)
        /\ \E k \in RowsOf(q) :
             run' = [run EXCEPT ![r].phase = "judging", ![r].found = k, ![r].seen = score[k]]
     \/ /\ RowsOf(q) = {}
        /\ run' = [run EXCEPT ![r].phase = "judging", ![r].found = NoRow]
  /\ UNCHANGED <<answered, score>>

JudgedRaw(reply) == reply  \* mutant: the range of the score is not checked
\* _judge: an APIError, no JSON, a wrong shape or a number out of range is NULL
Judged(reply) == IF reply \in Score THEN reply ELSE None

\* an UPDATE waits for another transaction that has updated the row
Free(r, k) == \A s \in Run \ {r} : k \notin run[s].locked

\* the model has answered: insert, or update the row found, and flush; the ORM leaves a
\* column out of the UPDATE whose value is the one it has read
Judge(r) ==
  LET k == IF run[r].found = NoRow THEN <<r, Current(r)>> ELSE run[r].found
      Written(s) == IF run[r].found # NoRow /\ s = run[r].seen THEN run[r].written
                    ELSE [w \in DOMAIN run[r].written \cup {k} |->
                            IF w = k THEN s ELSE run[r].written[w]]
  IN
  /\ run[r].phase = "judging"
  /\ Free(r, k)
  /\ \E reply \in Reply \cup {None} :
       run' = [run EXCEPT
         ![r].phase = "selecting", ![r].done = @ + 1, ![r].found = NoRow, ![r].seen = None,
         ![r].written = Written(Judged(reply)), ![r].locked = @ \cup {k},
         ![r].report = Append(@, Judged(reply))]
  /\ UNCHANGED <<answered, score>>

CommitScored(r) ==  \* mutant: a row without a score is not stored
  [k \in DOMAIN score \cup {w \in DOMAIN run[r].written : run[r].written[w] # None} |->
     IF k \in DOMAIN run[r].written THEN run[r].written[k] ELSE score[k]]
\* what the table holds after r's commit
Committed(r) ==
  [k \in DOMAIN score \cup DOMAIN run[r].written |->
     IF k \in DOMAIN run[r].written THEN run[r].written[k] ELSE score[k]]

\* session_scope commits and the report is sent
Commit(r) ==
  /\ run[r].phase = "selecting" /\ ~MoreToDo(r)
  /\ score' = Committed(r)
  /\ run' = [run EXCEPT ![r] =
       [NewRun EXCEPT !.phase = "committed", !.force = run[r].force, !.upto = run[r].upto]]
  /\ UNCHANGED answered

\* retrieval or the model call raises, or the process dies: all of it is rolled back
Abort(r) ==
  /\ Running(r)
  /\ run' = [run EXCEPT ![r] = [NewRun EXCEPT !.phase = "aborted"]]
  /\ UNCHANGED <<answered, score>>

Progress(r) == Select(r) \/ Judge(r) \/ Commit(r)
Next ==
  \/ RecordAnswer
  \/ \E r \in Run : Progress(r) \/ Abort(r) \/ \E force \in BOOLEAN : Begin(r, force)

Spec == Init /\ [][Next]_vars
-----------------------------------------------------------------------------
(***************************************************************************)
(* Properties.                                                             *)
(***************************************************************************)

\* The values every variable takes; a stored score is NULL or in the range 0..5.
TypeOK ==
  /\ answered \in 0..N
  /\ DOMAIN score \subseteq Run \X Question
  /\ \A k \in DOMAIN score : score[k] \in Score \cup {None}
  /\ \A r \in Run :
       /\ run[r].phase \in Phase /\ run[r].force \in BOOLEAN
       /\ run[r].upto \in 0..N /\ run[r].done \in 0..run[r].upto
       /\ run[r].found \in (Run \X Question) \cup {NoRow}
       /\ run[r].seen \in Score \cup {None} /\ run[r].locked \subseteq Run \X Question
       /\ Len(run[r].report) = run[r].done

\* A request that has committed leaves a row for every question that was answered when it
\* began, those included that it could not get a score for.
CommittedCovers ==
  \A r \in Run : run[r].phase = "committed" => \A q \in 1..run[r].upto : RowsOf(q) # {}

\* "Score every answered question in the interview (idempotent unless force)"
\* (evaluation_service.py:125): a request that is not forced changes no stored score, and
\* adds no row for a question scored by a request that had committed when it began.
RerunIdempotent ==
  [][\A r \in Run : run[r].phase # "committed" /\ run'[r].phase = "committed" /\ ~run[r].force =>
       /\ \A k \in DOMAIN score : score'[k] = score[k]
       /\ \A s \in run[r].earlier, q \in Question :
            <<s, q>> \in DOMAIN score => <<r, q>> \notin DOMAIN score']_vars

\* What the recruiter is told about a question is what the table says at that moment, or
\* one of the things it says when overlapping requests left several rows.  Only another,
\* forced request makes it stale: it overwrote a score that this one had used, or had seen
\* and meant to store again.
ReportIsStored ==
  [][\A r \in Run : run[r].phase # "committed" /\ run'[r].phase = "committed" =>
       \/ \A i \in 1..run[r].upto :
            \E k \in DOMAIN score' : k[2] = i /\ score'[k] = run[r].report[i]
       \/ \E f \in Run : run[f].force /\ run[f].phase = "committed"]_vars

=============================================================================
